---- MODULE Spec2Model ----
(***************************************************************************)
(* Model of protocol-loop: the cognitive-state rules                       *)
(* (backend/models/cognitive_state.py, backend/services/                   *)
(* evolution_engine.py), the memory bank (backend/models/memory.py), the   *)
(* loop manager (backend/services/loop_manager.py) and the protocol        *)
(* routes (backend/routes/protocol_routes.py).                             *)
(*                                                                         *)
(* Numbers.  Module levels, deltas and scores are Python floats.  The       *)
(* inputs used here lie on a grid of 0.01, and a level is held as the      *)
(* integer level*100 of its grid point (5.0 is 500, 100.0 is 10000, the    *)
(* mentor bonus 0.05 is 5) together with its drift: the exact distance of  *)
(* the double from the grid point, so that level = (held + drift *         *)
(* 2^-59) / 100.  evolution_score = (sum of levels / (count*100)) * 100    *)
(* is held as the integer score * 100 * count of its exact value, the sum  *)
(* of the held levels when the score is fresh (2.5 is 2000 with 8          *)
(* modules, 75 is 60000), together with its own drift <<r, s, k>>: the     *)
(* residual, its scale, and the scale of the score, below 0 only for the   *)
(* score of levels that sum to less than any grid step.  Every comparison  *)
(* and every int() the code makes is made on the double, and a property    *)
(* of a level, a score or an average is read on the double the code holds. *)
(***************************************************************************)
EXTENDS Integers, Sequences, FiniteSets, TLC

VARIABLES
    state,          \* the CognitiveState under test (tests' cognitive_state fixture)
    memory_bank,    \* the MemoryBank under test: [memories, total_memories, capacity]
    today,          \* datetime.utcnow() in whole days, read by Memory.get_decay_factor
    active_loops,   \* LoopManager.active_loops: loop id -> loop record
    loop_history,   \* LoopManager.loop_history: player id -> sequence of loop records
    player_states,  \* protocol_routes.player_states: player id -> CognitiveState
    result,         \* what the last operation returned (or the exception it raised)
    lastOp,         \* the last operation and its arguments
    opCount         \* number of operations performed so far

\* opCount comes first: it differs across every step
vars == <<opCount, lastOp, state, memory_bank, today, active_loops, loop_history,
          player_states, result>>

--------------------------------------------------------------------------
(* Bounds of the exploration *)

MaxOps == 3

--------------------------------------------------------------------------
(* backend/config.py *)

COGNITIVE_MODULES ==
    <<"logic", "empathy", "creativity", "fear", "trust", "humor", "curiosity", "ethics">>

ModuleNames == {COGNITIVE_MODULES[i] : i \in 1..Len(COGNITIVE_MODULES)}

MENTORS ==
    [LOGIC      |-> <<"rationality", "pattern_recognition", "deduction">>,
     COMPASSION |-> <<"empathy", "emotional_intelligence", "care">>,
     CURIOSITY  |-> <<"exploration", "creativity", "innovation">>,
     FEAR       |-> <<"risk_assessment", "protection", "survival">>]

MentorNames == DOMAIN MENTORS

NoMentor == "None"

--------------------------------------------------------------------------
(* backend/models/cognitive_state.py *)

LOCKED == "locked"
NASCENT == "nascent"
DEVELOPING == "developing"
ACTIVE == "active"
MASTERED == "mastered"

MaxLevel == 10000

Min(a, b) == IF a < b THEN a ELSE b
Max(a, b) == IF a > b THEN a ELSE b

Abs(x) == IF x < 0 THEN -x ELSE x

--------------------------------------------------------------------------
(* Python floats.  Every number the code computes is an IEEE double lying  *)
(* within a few units in the last place of a small rational n/d, or such  *)
(* a number scaled down by a power of two.  A double x is held exactly as  *)
(* the record [n, d, r, s, k] with                                         *)
(*     x = 2^k * (n + r * 2^s) / d,    d > 0,  s <= 0,                     *)
(* where r, the residual, is a small integer: 0.1 is                       *)
(* [n |-> 1, d |-> 10, r |-> 2, s |-> -56, k |-> 0] and 5.0 is             *)
(* [n |-> 5, d |-> 1, r |-> 0, s |-> 0, k |-> 0].  The scale k is 0 but    *)
(* for what is left when two doubles of the same n/d cancel:               *)
(* 0.1 + 0.2 - 0.3 is 2^-54, [n |-> 1, d |-> 1, r |-> 0, s |-> 0,          *)
(* k |-> -54]; such a value has n # 0.  An operation forms its exact       *)
(* result and rounds it to the nearest double, ties to the even mantissa,  *)
(* as the hardware does.                                                   *)

\* the element of a one-element set: Only({F(a) : a \in {e}}) is F(e) with e
\* evaluated once
Only(S) == CHOOSE v \in S : TRUE

Sign(v) == IF v > 0 THEN 1 ELSE IF v < 0 THEN -1 ELSE 0

RECURSIVE Gcd(_, _)
Gcd(a, b) == IF b = 0 THEN a ELSE Gcd(b, a % b)

\* 2^j modulo m, for m below 2^18
RECURSIVE Pow2Mod(_, _)
Pow2Mod(j, m) ==
    IF j <= 13 THEN (2^j) % m ELSE (Pow2Mod(j - 13, m) * 8192) % m

\* a * b modulo m for 0 <= a, b < m < 2^18, with no product above 2^31
MulMod(a, b, m) == ((((a * (b \div 256)) % m) * 256) + a * (b % 256)) % m

RECURSIVE BinadeUp(_)
BinadeUp(q) == IF q < 2 THEN 0 ELSE 1 + BinadeUp(q \div 2)

RECURSIVE BinadeDown(_, _)
BinadeDown(a, d) == IF a >= d THEN 0 ELSE BinadeDown(2 * a, d) - 1

\* the exponent e with 2^e <= |n|/d < 2^(e+1), n # 0
Binade(n, d) ==
    IF Abs(n) >= d THEN BinadeUp(Abs(n) \div d) ELSE BinadeDown(Abs(n), d)

\* |n|/d = 2^e
IsPowerOfTwo(n, d, e) ==
    IF e >= 0 THEN Abs(n) = d * 2^e ELSE Abs(n) * 2^(-e) = d

Float(n, d, r, s) == [n |-> n, d |-> d, r |-> r, s |-> s, k |-> 0]

FloatZero == Float(0, 1, 0, 0)

\* 2^k * (n + r * 2^s) / d with the powers of two of d, and for k < 0 those
\* of an exact n, moved into the scale
RECURSIVE Tiny(_, _, _, _, _)
Tiny(n, d, r, s, k) ==
    IF d % 2 = 0 THEN Tiny(n, d \div 2, r, s, k - 1)
    ELSE IF k < 0 /\ r = 0 /\ n # 0 /\ n % 2 = 0 THEN Tiny(n \div 2, d, 0, 0, k + 1)
    ELSE [n |-> n, d |-> d, r |-> r, s |-> s, k |-> k]

\* x * 2^k
ScaledBy(x, k) ==
    IF k = 0 \/ x.n = 0 THEN x ELSE Tiny(x.n, x.d, x.r, x.s, x.k + k)

\* the numerator of the small rational x lies at: 0 for a scaled value,
\* which lies at 0
NominalOf(x) == IF x.k < 0 THEN 0 ELSE x.n

\* the double x of scale x.k, written with the scale x.k - a: its n and r
\* in units 2^a times smaller
RaisedBy(x, a) ==
    IF x.r = 0 THEN Float(x.n * 2^a, x.d, 0, 0)
    ELSE IF x.s + a <= 0 THEN Float(x.n * 2^a, x.d, x.r, x.s + a)
    ELSE Float(x.n * 2^a + x.r * 2^(x.s + a), x.d, 0, 0)

\* n/d in lowest terms; the residual of a double is a multiple of gcd(n, d)
Normalized(n, d, r, s) ==
    Only({Float(n \div g, d \div g, r0 \div g, IF r0 = 0 THEN 0 ELSE s) :
          g \in {Gcd(Abs(n), d)}, r0 \in {r}})

\* the exponent e of the binade the rounded value lies in: that of n/d, or
\* the one below when n/d is a power of two and the residual, of sign res,
\* points towards zero
Exponent(n, d, res) ==
    Only({IF IsPowerOfTwo(n, d, e0) /\ res * Sign(n) < 0 THEN e0 - 1 ELSE e0 :
          e0 \in {Binade(n, d)}})

\* The exact residual A * 2^s, in units of 2^s2 = 2^(s + j), is a whole
\* number plus a fraction in [0, 1): WholeUnits is the whole number
WholeUnits(A, j) ==
    IF A = 0 THEN 0
    ELSE IF j <= 0 THEN A * 2^(-j)
    ELSE IF j <= 30 THEN A \div 2^j
    ELSE IF A > 0 THEN 0 ELSE -1

\* the class of the fraction: -1 just below the whole number, 0 equal to it,
\* 1 below the half, 2 the half, 3 above it
FractionClass(A, j, t) ==
    IF A = 0 \/ j <= 0 THEN t
    ELSE IF j <= 30
         THEN Only({IF lo = 0 THEN t
                    ELSE IF 2 * lo < 2^j THEN 1
                    ELSE IF 2 * lo = 2^j THEN 2 + t
                    ELSE 3 : lo \in {A % 2^j}})
    ELSE IF A > 0 THEN 1 ELSE 3

\* the residuals of the doubles near n/d, in units of 2^s2, are the integers
\* congruent to c modulo d
ResidueClass(n, d, s2) == (-MulMod(n % d, Pow2Mod(-s2, d), d)) % d

\* the residual of the nearest double at or below the exact value
ResidualBelow(n, d, s2, I, q) ==
    Only({IF q = -1 /\ L0 = I THEN I - d ELSE L0 :
          L0 \in {I - ((I - ResidueClass(n, d, s2)) % d)}})

\* the double of residual L has an even mantissa
EvenMantissa(n, d, s2, L) ==
    (L + MulMod(n % (2 * d), Pow2Mod(-s2, 2 * d), 2 * d)) % (2 * d) = 0

\* the residual of the double nearest to the exact value, ties to even
NearestResidual(n, d, s2, I, q) ==
    Only({IF 4 * I + q < 4 * L + 2 * d THEN L
          ELSE IF 4 * I + q > 4 * L + 2 * d THEN L + d
          ELSE IF EvenMantissa(n, d, s2, L) THEN L ELSE L + d :
          L \in {ResidualBelow(n, d, s2, I, q)}})

\* rounding among the multiples of 2^s2
RoundedAt(n, d, A, s, t, s2) ==
    Only({Normalized(n, d, NearestResidual(n, d, s2, I, q), s2) :
          I \in {WholeUnits(A, s2 - s)}, q \in {FractionClass(A, s2 - s, t)}})

\* the double nearest to (n + (A + t*eps) * 2^s) / d, ties to even, where
\* t in {-1, 0, 1} is the sign of a part of the exact value that is too
\* small to change anything but the side of a tie
RoundNormal(n, d, A, s, t) ==
    Only({RoundedAt(n, d, A, s, t, e - 52) :
          e \in {Exponent(n, d, IF A # 0 THEN Sign(A) ELSE t)}})

\* the exact value as (n + (A + t*eps) * 2^s) / d * 2^k with n # 0: itself,
\* or, when the n/d of the operands cancelled, what is left, A * 2^s / d
Rooted(n, d, A, s, t) ==
    IF n = 0 THEN <<A, d, 0, 0, t, s>> ELSE <<n, d, A, s, t, 0>>

RoundToDouble(n, d, A, s, t) ==
    Only({IF a[1] = 0 THEN FloatZero
          ELSE ScaledBy(RoundNormal(a[1], a[2], a[3], a[4], a[5]), a[6]) :
          a \in {Rooted(n, d, A, s, t)}})

\* the double nearest to n/d: what a decimal literal becomes
FloatOf(n, d) == RoundToDouble(n, d, 0, 0, 0)

\* the double of an int, or of a literal with no fraction: the int itself
FloatOfInt(n) == Float(n, 1, 0, 0)

\* the scale two residuals are added on
CommonScale(x, y) ==
    IF x.r = 0 THEN y.s ELSE IF y.r = 0 THEN x.s ELSE IF x.s < y.s THEN x.s ELSE y.s

\* r * 2^(s - to), 0 for no residual
Rescaled(r, s, to) == IF r = 0 THEN 0 ELSE r * 2^(s - to)

\* the exact sum of x and y, as the arguments of RoundToDouble
ExactSum(x, y) ==
    Only({<<x.n * (d \div x.d) + y.n * (d \div y.d), d,
            Rescaled(x.r * (d \div x.d), x.s, s) + Rescaled(y.r * (d \div y.d), y.s, s),
            s, 0>> :
          d \in {(x.d \div Gcd(x.d, y.d)) * y.d}, s \in {CommonScale(x, y)}})

\* the exact sum of b, of scale 0, and of y, a binary places below it and
\* too far for one scale: y is a part of the residual, its own residual
\* only the side of a tie
ExactSumFar(b, y, a) ==
    Only({IF b.r = 0
          THEN <<b.n * (d \div b.d), d, y.n * (d \div y.d), -a, Sign(y.r)>>
          ELSE IF -a >= b.s
          THEN <<b.n * (d \div b.d), d,
                 b.r * (d \div b.d) + y.n * (d \div y.d) * 2^(-a - b.s), b.s, Sign(y.r)>>
          ELSE IF b.s + a <= 20
          THEN <<b.n * (d \div b.d), d,
                 b.r * (d \div b.d) * 2^(b.s + a) + y.n * (d \div y.d), -a, Sign(y.r)>>
          ELSE <<b.n * (d \div b.d), d, b.r * (d \div b.d), b.s, Sign(y.n)>> :
          d \in {(b.d \div Gcd(b.d, y.d)) * y.d}})

\* the exact sum of b and of y of the lower scale, a binary places below: on
\* the lower scale when a is at most 20
ExactSumAcross(b, y, a) ==
    IF a <= 20 THEN Append(ExactSum(RaisedBy(b, a), y), y.k)
    ELSE Append(ExactSumFar(b, y, a), b.k)

\* the exact sum of x and y, as the arguments of RoundToDouble and the scale
ExactSumScaled(x, y) ==
    IF x.n = 0 THEN Append(ExactSum(x, y), y.k)
    ELSE IF y.n = 0 \/ x.k = y.k THEN Append(ExactSum(x, y), x.k)
    ELSE IF x.k > y.k THEN ExactSumAcross(x, y, x.k - y.k)
    ELSE ExactSumAcross(y, x, y.k - x.k)

\* x + y
FloatAdd(x, y) ==
    Only({ScaledBy(RoundToDouble(a[1], a[2], a[3], a[4], a[5]), a[6]) :
          a \in {Only({ExactSumScaled(x0, y0) : x0 \in {x}, y0 \in {y}})}})

\* -x
FloatNeg(x) == Only({[x0 EXCEPT !.n = -x0.n, !.r = -x0.r] : x0 \in {x}})

\* x - y
FloatSub(x, y) == FloatAdd(x, FloatNeg(y))

\* x * y for a double y that is the fraction y.n / y.d itself
ExactProductByFraction(x, y) ==
    Only({<<x.n * (y.n \div g), (x.d \div g) * y.d, x.r * (y.n \div g), x.s, 0>> :
          g \in {Gcd(Abs(y.n), x.d)}})

\* the exact product of x and y, neither 0, as the arguments of RoundToDouble
ExactProduct(x, y) ==
    IF y.r = 0 THEN ExactProductByFraction(x, y)
    ELSE IF x.r = 0 THEN ExactProductByFraction(y, x)
    ELSE Only({<<x.n * y.n, x.d * y.d,
                 Rescaled(x.n * y.r, y.s, s) + Rescaled(y.n * x.r, x.s, s),
                 s, Sign(x.r) * Sign(y.r)>> : s \in {CommonScale(x, y)}})

\* x * y
MulDoubles(x, y) ==
    IF x.n = 0 \/ y.n = 0 THEN FloatZero
    ELSE ScaledBy(Only({RoundToDouble(a[1], a[2], a[3], a[4], a[5]) :
                        a \in {ExactProduct(x, y)}}), x.k + y.k)

FloatMul(x, y) ==
    Only({MulDoubles(x0, y0) : x0 \in {x}, y0 \in {y}})

\* x / y for a double y # 0 that is the fraction y.n / y.d itself
ExactQuotientByFraction(x, y) ==
    Only({Only({<<n \div h, d \div h, A \div h, x.s, 0>> :
                h \in {Gcd(Gcd(Abs(n), d), Abs(A))}}) :
          n \in {Sign(y.n) * x.n * (y.d \div Gcd(x.d, y.d))},
          d \in {(x.d \div Gcd(x.d, y.d)) * Abs(y.n)},
          A \in {Sign(y.n) * x.r * (y.d \div Gcd(x.d, y.d))}})

\* x / y for doubles of residuals r1 # 0 and r2 # 0, with y.n > 0: the exact
\* quotient is (n + (A + t*eps) * 2^s) / d
ExactQuotientGeneral(n1, d1, r1, s1, n2, d2, r2, s2) ==
    Only({Only({Only({<<n \div g, d \div g, A \div g, s, -(Sign(A) * Sign(r2))>> :
                      g \in {Gcd(Gcd(Abs(n), d), Abs(A))}}) :
                A \in {d2 * (Rescaled(n2 * r1, s1, s) - Rescaled(n1 * r2, s2, s))}}) :
          n \in {n1 * d2 * n2},
          d \in {d1 * n2 * n2},
          s \in {IF r1 = 0 THEN s2 ELSE IF s1 < s2 THEN s1 ELSE s2}})

\* the exact quotient of x # 0 by y # 0, as the arguments of RoundToDouble
ExactQuotient(x, y) ==
    IF y.r = 0 THEN ExactQuotientByFraction(x, y)
    ELSE ExactQuotientGeneral(x.n * Sign(y.n), x.d, x.r * Sign(y.n), x.s,
                              y.n * Sign(y.n), y.d, y.r * Sign(y.n), y.s)

\* x / y, y # 0
DivDoubles(x, y) ==
    IF x.n = 0 THEN FloatZero
    ELSE ScaledBy(Only({RoundToDouble(a[1], a[2], a[3], a[4], a[5]) :
                        a \in {ExactQuotient(x, y)}}), x.k - y.k)

FloatDiv(x, y) ==
    Only({DivDoubles(x0, y0) : x0 \in {x}, y0 \in {y}})

\* -1, 0 or 1 as x is below, equal to or above y
CmpDoubles(x, y) ==
    IF x.n * y.d # y.n * x.d THEN Sign(x.n * y.d - y.n * x.d)
    ELSE Sign(Rescaled(x.r * y.d, x.s, CommonScale(x, y))
              - Rescaled(y.r * x.d, y.s, CommonScale(x, y)))

\* the same for two scales: by the signs, by the scales when they are far
\* apart, on the lower scale otherwise
CmpScaled(x, y) ==
    IF x.n = 0 \/ y.n = 0 \/ x.k = y.k THEN CmpDoubles(x, y)
    ELSE IF Sign(x.n) # Sign(y.n) THEN Sign(x.n)
    ELSE IF x.k - y.k > 20 THEN Sign(x.n)
    ELSE IF y.k - x.k > 20 THEN -Sign(x.n)
    ELSE IF x.k > y.k THEN CmpDoubles(RaisedBy(x, x.k - y.k), y)
    ELSE CmpDoubles(x, RaisedBy(y, y.k - x.k))

FloatCmp(x, y) ==
    Only({CmpScaled(x0, y0) : x0 \in {x}, y0 \in {y}})

\* abs(x)
FloatAbs(x) ==
    Only({IF FloatCmp(x0, FloatZero) < 0 THEN FloatNeg(x0) ELSE x0 : x0 \in {x}})

\* int(x): truncation towards zero
IntOfDouble(x) ==
    IF x.k < 0 THEN 0
    ELSE IF x.n % x.d = 0
    THEN LET k == x.n \div x.d
         IN IF k > 0 /\ x.r < 0 THEN k - 1
            ELSE IF k < 0 /\ x.r > 0 THEN k + 1
            ELSE k
    ELSE IF x.n > 0 THEN x.n \div x.d ELSE -((-x.n) \div x.d)

\* int(x)
FloatInt(x) == Only({IntOfDouble(x0) : x0 \in {x}})

--------------------------------------------------------------------------
(* backend/models/cognitive_state.py, continued *)

\* the double of a module level: its grid point held as level*100, its drift
\* in units of 2^-59 / 100; a level that is all drift is the scaled value
\* drift/100 * 2^-59
LevelFloat(level, drift) ==
    IF level = 0 /\ drift # 0
    THEN Only({Tiny(drift \div g, 100 \div g, 0, 0, -59) : g \in {Gcd(Abs(drift), 100)}})
    ELSE Float(level, 100, drift, -59)

\* the held grid point and the drift of a level x
HeldLevel(x) == IF x.k < 0 THEN 0 ELSE x.n * (100 \div x.d)
DriftOf(x) ==
    IF x.k < 0 THEN (x.n * 2^(x.k + 59) * 100) \div x.d
    ELSE Rescaled(x.r * (100 \div x.d), x.s, -59)

\* the double of a delta or of a level given in hundredths
Hundredths(v) == FloatOf(v, 100)

\* int(amount * 100)
IntTimes100(amount) == FloatInt(FloatMul(Hundredths(amount), FloatOfInt(100)))

\* CognitiveModule.update_status: the status a level maps to
update_status(level) ==
    IF FloatCmp(level, FloatZero) = 0 THEN LOCKED
    ELSE IF FloatCmp(level, FloatOfInt(20)) < 0 THEN NASCENT
    ELSE IF FloatCmp(level, FloatOfInt(50)) < 0 THEN DEVELOPING
    ELSE IF FloatCmp(level, FloatOfInt(90)) < 0 THEN ACTIVE
    ELSE MASTERED

\* min(100.0, self.level + amount)
RaisedLevel(s, m, amount) ==
    Only({IF FloatCmp(sum, FloatOfInt(100)) < 0 THEN sum ELSE FloatOfInt(100) :
          sum \in {FloatAdd(LevelFloat(s.level[m], s.drift[m]), Hundredths(amount))}})

\* gain_experience without the closing update_status() call
gain_experience_stale_status(s, m, amount) ==
    Only({[s EXCEPT !.experience_points[m] = @ + IntTimes100(amount),
                    !.level[m] = HeldLevel(newLevel),
                    !.drift[m] = DriftOf(newLevel)] :
          newLevel \in {RaisedLevel(s, m, amount)}})

\* CognitiveModule.gain_experience on module m of state s
gain_experience(s, m, amount) ==
    Only({[s EXCEPT !.experience_points[m] = @ + IntTimes100(amount),
                    !.level[m] = HeldLevel(newLevel),
                    !.drift[m] = DriftOf(newLevel),
                    !.status[m] = update_status(newLevel)] :
          newLevel \in {RaisedLevel(s, m, amount)}})

\* CognitiveState.to_dict: module name -> level
to_dict(s) == [m \in DOMAIN s.level |-> LevelFloat(s.level[m], s.drift[m])]

\* CognitiveModule.is_unlocked: requirements is a set of <<module, level*100>>,
\* current_state a map of levels; a missing module counts as level 0
is_unlocked(requirements, current_state) ==
    \A req \in requirements :
        ~(FloatCmp(IF req[1] \in DOMAIN current_state
                   THEN current_state[req[1]] ELSE FloatZero,
                   Hundredths(req[2])) < 0)

\* the sum of the held levels of the modules named
RECURSIVE SumLevels(_, _)
SumLevels(level, names) ==
    IF names = {} THEN 0
    ELSE LET n == CHOOSE x \in names : TRUE
         IN level[n] + SumLevels(level, names \ {n})

\* sum(m.level for m in self.modules.values()): added one by one from 0, in
\* dict order, each addition rounded, as sum() adds floats in Python 3.9 to
\* 3.11, the versions setup.py lists
RECURSIVE TotalLevel(_, _)
TotalLevel(levels, names) ==
    IF names = <<>> THEN FloatZero
    ELSE FloatAdd(TotalLevel(levels, SubSeq(names, 1, Len(names) - 1)),
                  levels[names[Len(names)]])

\* the unit the evolution_score field of s is held in: a score x is held as
\* x * 100 * count on a state with modules, and as x * 100 on a state with none
ScoreUnits(s) ==
    IF DOMAIN s.level = {} THEN 100 ELSE 100 * Cardinality(DOMAIN s.level)

\* the double of the evolution_score field of s, whatever wrote it: the
\* constructor, calculate_evolution_score or a plain assignment
EvolutionFloat(s) ==
    [n |-> s.evolution_score, d |-> ScoreUnits(s),
     r |-> s.evolution_drift[1], s |-> s.evolution_drift[2],
     k |-> s.evolution_drift[3]]

\* CognitiveState.calculate_evolution_score (held as score * 100 * count)
calculate_evolution_score(s) ==
    IF DOMAIN s.level = {}
    THEN [s EXCEPT !.evolution_score = 0, !.evolution_drift = <<0, 0, 0>>]
    ELSE Only({Only({[s EXCEPT !.evolution_score = score.n * (max_possible \div score.d),
                               !.evolution_drift =
                                    <<score.r * (max_possible \div score.d), score.s, score.k>>] :
                     score \in {FloatMul(FloatDiv(total_level, FloatOfInt(max_possible)),
                                         FloatOfInt(100))}}) :
               total_level \in {TotalLevel(to_dict(s), s.order)},
               max_possible \in {Len(s.order) * 100}})

\* sorted(..., key=level, reverse=True): stable insertion of name n into a
\* sequence already ordered by level descending (equal levels keep input order)
RECURSIVE InsertDesc(_, _, _)
InsertDesc(sorted, n, level) ==
    IF sorted = <<>> THEN <<n>>
    ELSE IF FloatCmp(level[Head(sorted)], level[n]) >= 0
         THEN <<Head(sorted)>> \o InsertDesc(Tail(sorted), n, level)
         ELSE <<n>> \o sorted

RECURSIVE SortDesc(_, _)
SortDesc(names, level) ==
    IF names = <<>> THEN <<>>
    ELSE InsertDesc(SortDesc(SubSeq(names, 1, Len(names) - 1), level),
                    names[Len(names)], level)

\* update_dominant_traits extending the list in place of assigning it
update_dominant_traits_extends(s) ==
    LET sorted_modules == SortDesc(s.order, to_dict(s))
    IN [s EXCEPT !.dominant_traits =
            @ \o SubSeq(sorted_modules, 1, Min(3, Len(sorted_modules)))]

\* CognitiveState.update_dominant_traits
update_dominant_traits(s) ==
    LET sorted_modules == SortDesc(s.order, to_dict(s))
    IN [s EXCEPT !.dominant_traits = SubSeq(sorted_modules, 1, Min(3, Len(sorted_modules)))]

\* update_module adding to total_experience before the unknown-module return
update_module_totals_first(s, module_name, delta) ==
    LET s0 == [s EXCEPT !.total_experience = @ + IntTimes100(delta)]
    IN IF module_name \notin DOMAIN s.level THEN s0
       ELSE update_dominant_traits(
                calculate_evolution_score(gain_experience(s0, module_name, delta)))

\* CognitiveState.update_module
update_module(s, module_name, delta) ==
    IF module_name \notin DOMAIN s.level THEN s
    ELSE update_dominant_traits(
            calculate_evolution_score(
                [gain_experience(s, module_name, delta)
                     EXCEPT !.total_experience = @ + IntTimes100(delta)]))

\* CognitiveState.get_module_level: 0.0 for a module the state does not have
get_module_level(s, module_name) ==
    IF module_name \in DOMAIN s.level
    THEN LevelFloat(s.level[module_name], s.drift[module_name]) ELSE FloatZero

--------------------------------------------------------------------------
(* backend/services/evolution_engine.py *)

core_modules == {"logic", "empathy", "curiosity", "fear"}

SeedLevel == 500
MentorBonus == 5
BreakthroughBoost == 1000

\* EvolutionEngine._get_unlock_requirements
get_unlock_requirements(module_name) ==
    CASE module_name = "humor"  -> {<<"creativity", 3000>>, <<"empathy", 2000>>}
      [] module_name = "ethics" -> {<<"logic", 2500>>, <<"empathy", 2500>>}
      [] module_name = "trust"  -> {<<"empathy", 3000>>}
      [] OTHER -> {}

\* initialize_cognitive_state without the closing calculate_evolution_score()
initialize_cognitive_state_no_score(player_id) ==
    [player_id |-> player_id,
     loop_number |-> 0,
     order |-> COGNITIVE_MODULES,
     level |-> [m \in ModuleNames |-> IF m \in core_modules THEN SeedLevel ELSE 0],
     drift |-> [m \in ModuleNames |-> 0],
     status |-> [m \in ModuleNames |-> IF m \in core_modules THEN NASCENT ELSE LOCKED],
     experience_points |-> [m \in ModuleNames |-> 0],
     unlock_requirements |-> [m \in ModuleNames |-> get_unlock_requirements(m)],
     total_experience |-> 0,
     evolution_score |-> 0,
     evolution_drift |-> <<0, 0, 0>>,
     dominant_traits |-> <<>>]

\* EvolutionEngine.initialize_cognitive_state
initialize_cognitive_state(player_id) ==
    calculate_evolution_score(
        [player_id |-> player_id,
         loop_number |-> 0,
         order |-> COGNITIVE_MODULES,
         level |-> [m \in ModuleNames |-> IF m \in core_modules THEN SeedLevel ELSE 0],
         drift |-> [m \in ModuleNames |-> 0],
         status |-> [m \in ModuleNames |-> IF m \in core_modules THEN NASCENT ELSE LOCKED],
         experience_points |-> [m \in ModuleNames |-> 0],
         unlock_requirements |-> [m \in ModuleNames |-> get_unlock_requirements(m)],
         total_experience |-> 0,
         evolution_score |-> 0,
         evolution_drift |-> <<0, 0, 0>>,
         dominant_traits |-> <<>>])

\* the loop body of apply_decision_impact over the impact map, in dict order
RECURSIVE ApplyImpacts(_, _)
ApplyImpacts(s, impact) ==
    IF impact = <<>> THEN s
    ELSE ApplyImpacts(
            IF impact[1][1] \in DOMAIN s.level
            THEN update_module(s, impact[1][1], impact[1][2]) ELSE s,
            Tail(impact))

\* the mentor bonus loop leaving after the first trait
ApplyMentorTraitsFirstOnly(s, traits) ==
    IF traits = <<>> THEN s
    ELSE IF traits[1] \in DOMAIN s.level
         THEN update_module(s, traits[1], MentorBonus) ELSE s

\* the mentor bonus loop of apply_decision_impact over the mentor's traits
RECURSIVE ApplyMentorTraits(_, _)
ApplyMentorTraits(s, traits) ==
    IF traits = <<>> THEN s
    ELSE ApplyMentorTraits(
            IF traits[1] \in DOMAIN s.level
            THEN update_module(s, traits[1], MentorBonus) ELSE s,
            Tail(traits))

\* EvolutionEngine._check_module_unlocks over the modules in iteration order
RECURSIVE check_module_unlocks_from(_, _)
check_module_unlocks_from(s, names) ==
    IF names = <<>> THEN s
    ELSE LET m == Head(names)
         IN check_module_unlocks_from(
                IF s.status[m] = LOCKED /\ is_unlocked(s.unlock_requirements[m], to_dict(s))
                THEN [s EXCEPT !.status[m] = NASCENT, !.level[m] = SeedLevel,
                               !.drift[m] = 0]
                ELSE s,
                Tail(names))

\* the unlock scan leaving its loop after the first module it unlocks
check_module_unlocks_first_only(s) ==
    LET eligible == {i \in 1..Len(s.order) :
                       /\ s.status[s.order[i]] = LOCKED
                       /\ is_unlocked(s.unlock_requirements[s.order[i]], to_dict(s))}
    IN IF eligible = {} THEN s
       ELSE LET first == CHOOSE i \in eligible : \A j \in eligible : i <= j
            IN check_module_unlocks_from(s, <<s.order[first]>>)

check_module_unlocks(s) == check_module_unlocks_from(s, s.order)

\* the modules _trigger_breakthrough chooses from
DevelopingModules(s) == {m \in DOMAIN s.level : s.status[m] = DEVELOPING}

\* a breakthrough that boosts every developing module, not the chosen one
RECURSIVE BoostAll(_, _)
BoostAll(s, names) ==
    IF names = {} THEN s
    ELSE LET n == CHOOSE x \in names : TRUE
         IN BoostAll(update_module(s, n, BreakthroughBoost), names \ {n})

trigger_breakthrough_boosts_all(s, chosen) == BoostAll(s, DevelopingModules(s))

\* EvolutionEngine._trigger_breakthrough with random.choice returning chosen
trigger_breakthrough(s, chosen) ==
    IF DevelopingModules(s) # {} THEN update_module(s, chosen, BreakthroughBoost) ELSE s

\* the state at the unlock scan of apply_decision_impact: the impacts and
\* the mentor bonus have been applied
BeforeUnlockScan(s, decision_impact, mentor_influence) ==
    ApplyMentorTraits(ApplyImpacts(s, decision_impact),
                      IF mentor_influence # NoMentor /\ mentor_influence \in MentorNames
                      THEN MENTORS[mentor_influence] ELSE <<>>)

\* the state before the breakthrough draw of apply_decision_impact
BeforeBreakthrough(s, decision_impact, mentor_influence) ==
    check_module_unlocks(BeforeUnlockScan(s, decision_impact, mentor_influence))

\* random.choice not called
NoChoice == "None"

\* what random.choice can return in the breakthrough of apply_decision_impact:
\* a developing module of the state before the draw, NoChoice when the
\* breakthrough does not fire or has nothing to choose from
BreakthroughChoices(s, decision_impact, mentor_influence, fires) ==
    Only({IF fires /\ DevelopingModules(s3) # {} THEN DevelopingModules(s3) ELSE {NoChoice} :
          s3 \in {BeforeBreakthrough(s, decision_impact, mentor_influence)}})

\* EvolutionEngine.apply_decision_impact; fires tells whether
\* random.random() < breakthrough_chance, chosen is random.choice's pick
apply_decision_impact(s, decision_impact, mentor_influence, fires, chosen) ==
    Only({IF fires THEN trigger_breakthrough(s3, chosen) ELSE s3 :
          s3 \in {BeforeBreakthrough(s, decision_impact, mentor_influence)}})

--------------------------------------------------------------------------
(* Values of the variables an exploration does not use *)

EmptyMap == [x \in {} |-> 0]

Capacity == 2

EmptyBank(player_id) ==
    [player_id |-> player_id, memories |-> <<>>, total_memories |-> 0,
     capacity |-> Capacity]

NoResult == "None"
NoException == "None"

\* an operation's outcome: the value it returned, or the exception it raised
Returned(v) == [raised |-> NoException, value |-> v]
Raised(e) == [raised |-> e, value |-> NoResult]

--------------------------------------------------------------------------
(* Cognitive state: calls of update_module and apply_decision_impact on    *)
(* the state initialize_cognitive_state returns (tests/test_evolution.py)  *)

\* calls of apply_decision_impact: the impact map (module, delta*100) in
\* dict order and the mentor_influence argument
CallInputs ==
    { [decision_impact |-> <<>>, mentor_influence |-> NoMentor],
      [decision_impact |-> << <<"logic", 20>>, <<"empathy", 10>> >>,
       mentor_influence |-> "LOGIC"],
      [decision_impact |-> << <<"creativity", 10>> >>, mentor_influence |-> NoMentor],
      [decision_impact |-> << <<"empathy", 2500>> >>, mentor_influence |-> "COMPASSION"],
      [decision_impact |-> << <<"empathy", -100>>, <<"trust", -500>> >>,
       mentor_influence |-> NoMentor],
      [decision_impact |-> << <<"logic", -1000>> >>, mentor_influence |-> "FEAR"],
      [decision_impact |-> << <<"creativity", 3000>>, <<"empathy", 2000>> >>,
       mentor_influence |-> "CURIOSITY"],
      [decision_impact |-> << <<"logic", 9800>> >>, mentor_influence |-> "ORACLE"],
      [decision_impact |-> << <<"intuition", 50>> >>, mentor_influence |-> "COMPASSION"],
      [decision_impact |-> <<>>, mentor_influence |-> "CURIOSITY"],
      [decision_impact |-> << <<"humor", 100>> >>, mentor_influence |-> NoMentor] }

\* calls of update_module: module name and delta*100 (0.29 is a delta whose
\* product with 100 falls below 29)
UpdateInputs ==
    { <<"logic", -500>>, <<"creativity", 1500>>, <<"intuition", 5>>,
      <<"empathy", 9800>>, <<"trust", 5>>, <<"fear", 29>> }

CogInit ==
    /\ state = initialize_cognitive_state("test_player")
    /\ memory_bank = EmptyBank("test_player")
    /\ today = 0
    /\ active_loops = EmptyMap
    /\ loop_history = EmptyMap
    /\ player_states = EmptyMap
    /\ result = Returned(NoResult)
    /\ lastOp = [op |-> "initialize_cognitive_state"]
    /\ opCount = 0

\* state.update_module(module_name, delta)
UpdateModule ==
    /\ opCount < MaxOps
    /\ \E call \in UpdateInputs :
        /\ state' = update_module(state, call[1], call[2])
        /\ lastOp' = [op |-> "update_module", module_name |-> call[1], delta |-> call[2]]
    /\ result' = Returned(NoResult)
    /\ opCount' = opCount + 1
    /\ UNCHANGED <<memory_bank, today, active_loops, loop_history, player_states>>

\* evolution_engine.apply_decision_impact(state, decision_impact, mentor_influence)
ApplyDecisionImpact ==
    /\ opCount < MaxOps
    /\ \E call \in CallInputs, fires \in BOOLEAN :
        \E chosen \in BreakthroughChoices(state, call.decision_impact,
                                          call.mentor_influence, fires) :
            /\ state' = apply_decision_impact(state, call.decision_impact,
                                              call.mentor_influence, fires, chosen)
            /\ lastOp' = [op |-> "apply_decision_impact",
                          decision_impact |-> call.decision_impact,
                          mentor_influence |-> call.mentor_influence,
                          fires |-> fires, chosen |-> chosen]
    /\ result' = Returned("state")
    /\ opCount' = opCount + 1
    /\ UNCHANGED <<memory_bank, today, active_loops, loop_history, player_states>>

CogNext == UpdateModule \/ ApplyDecisionImpact

SpecCog == CogInit /\ [][CogNext]_vars

\* only apply_decision_impact calls
ImpactNext == ApplyDecisionImpact

SpecImpact == CogInit /\ [][ImpactNext]_vars

--------------------------------------------------------------------------
(* Claims about the cognitive state *)

\* C2: after gain_experience (directly or through update_module or
\* apply_decision_impact), for a delta of either sign and any magnitude,
\* every module level is between 0 and 100.
C2_LevelWithinRange ==
    \A m \in ModuleNames :
        /\ FloatCmp(FloatZero, get_module_level(state, m)) <= 0
        /\ FloatCmp(get_module_level(state, m), FloatOfInt(100)) <= 0

\* the evolution_score field is the formula evaluated on the levels of s:
\* the held value is the sum of the held levels, and the double is the one
\* the formula's float operations give
ScoreIsFresh(s) ==
    /\ NominalOf(EvolutionFloat(s)) = SumLevels(s.level, DOMAIN s.level)
    /\ FloatCmp(EvolutionFloat(s), EvolutionFloat(calculate_evolution_score(s))) = 0

\* C3: in every state reached by update_module and apply_decision_impact
\* calls, evolution_score = 100 * (sum of levels) / (100 * module count).
C3_ScoreIsFormula ==
    opCount > 0 => ScoreIsFresh(state)

\* C4: unlock monotonicity: a module that is not LOCKED at the end of an
\* apply_decision_impact call is not LOCKED at the end of any later one.
C4_UnlockMonotonic ==
    [][\A m \in ModuleNames :
         (opCount > 0 /\ state.status[m] # LOCKED) => state'.status[m] # LOCKED]_vars

\* C11: a module that is LOCKED before an apply_decision_impact call is
\* non-LOCKED after it only if its unlock prerequisites are satisfied by the
\* levels at the unlock scan, and then it is NASCENT at level exactly 5.0
\* (no delta or mentor bonus takes a module out of LOCKED directly).
C11_UnlockOnlyByScan ==
    [][\A m \in ModuleNames :
         (/\ lastOp'.op = "apply_decision_impact"
          /\ state.status[m] = LOCKED
          /\ state'.status[m] # LOCKED) =>
            /\ is_unlocked(state.unlock_requirements[m],
                           to_dict(BeforeUnlockScan(state, lastOp'.decision_impact,
                                                    lastOp'.mentor_influence)))
            /\ state'.status[m] = NASCENT
            /\ state'.level[m] = SeedLevel
            /\ state'.drift[m] = 0]_vars

\* the LOCKED modules whose unlock prerequisites the levels of s satisfy
LockedButSatisfied(s) ==
    {m \in DOMAIN s.level :
        s.status[m] = LOCKED /\ is_unlocked(s.unlock_requirements[m], to_dict(s))}

\* C12 (as claimed): after every apply_decision_impact call, no module is
\* LOCKED while the state's current levels satisfy all its prerequisites.
C12_NoSatisfiedModuleLocked ==
    lastOp.op = "apply_decision_impact" => LockedButSatisfied(state) = {}

\* C12 (amended): after an apply_decision_impact call whose breakthrough
\* step boosted no module, no module is LOCKED while the state's current
\* levels satisfy all its prerequisites.
C12_NoSatisfiedModuleLockedWithoutBoost ==
    (lastOp.op = "apply_decision_impact" /\ lastOp.chosen = NoChoice) =>
        LockedButSatisfied(state) = {}

\* a call without boost whose scan unlocked trust and left ethics LOCKED
C12_Witness ==
    /\ lastOp.op = "apply_decision_impact"
    /\ lastOp.chosen = NoChoice
    /\ state.status["trust"] = NASCENT
    /\ state.level["trust"] = SeedLevel
    /\ state.level["empathy"] >= 3000
    /\ state.status["ethics"] = LOCKED

\* C13: no gain_experience / update_module / apply_decision_impact call
\* lowers a module's experience_points.
C13_ExperienceNeverDecreases ==
    [][\A m \in ModuleNames :
         state'.experience_points[m] >= state.experience_points[m]]_vars

\* C18: after {logic: +0.2, empathy: +0.1} with mentor LOGIC is applied to
\* a freshly initialized state, logic is 5.2 and empathy 5.1 (no mentor
\* bonus was added) and evolution_score is the score formula evaluated on
\* the resulting levels.
C18_TestImpactOnFreshState ==
    (/\ opCount = 1
     /\ lastOp.op = "apply_decision_impact"
     /\ lastOp.decision_impact = << <<"logic", 20>>, <<"empathy", 10>> >>
     /\ lastOp.mentor_influence = "LOGIC") =>
        /\ state.level["logic"] = 520
        /\ state.level["empathy"] = 510
        /\ ScoreIsFresh(state)

ModuleIndex(m) == CHOOSE i \in 1..Len(COGNITIVE_MODULES) : COGNITIVE_MODULES[i] = m

\* a ranks before b: higher level, or equal level and earlier in iteration order
RanksBefore(a, b, level) ==
    \/ FloatCmp(level[a], level[b]) > 0
    \/ FloatCmp(level[a], level[b]) = 0 /\ ModuleIndex(a) < ModuleIndex(b)

IsTopThree(traits, level) ==
    /\ Len(traits) = 3
    /\ \A i \in 1..3 : traits[i] \in ModuleNames
    /\ \A i \in 1..3 :
         \A m \in ModuleNames \ {traits[j] : j \in 1..i} : RanksBefore(traits[i], m, level)

\* C9: after any sequence of update_module and apply_decision_impact calls,
\* dominant_traits is the first three module names ranked by level
\* descending, ties in module iteration order.
C9_DominantTraitsRanked ==
    opCount > 0 => IsTopThree(state.dominant_traits, to_dict(state))

\* the status the data model assigns to a level
StatusOfLevel(level) ==
    CASE FloatCmp(level, FloatZero) = 0 -> LOCKED
      [] FloatCmp(level, FloatZero) # 0 /\ FloatCmp(level, FloatOfInt(20)) < 0 -> NASCENT
      [] FloatCmp(level, FloatOfInt(20)) >= 0 /\ FloatCmp(level, FloatOfInt(50)) < 0
            -> DEVELOPING
      [] FloatCmp(level, FloatOfInt(50)) >= 0 /\ FloatCmp(level, FloatOfInt(90)) < 0
            -> ACTIVE
      [] FloatCmp(level, FloatOfInt(90)) >= 0 -> MASTERED

\* C10: in every state reached by update_module and apply_decision_impact
\* calls each module's status is the fixed function of its level.
C10_StatusFollowsLevel ==
    \A m \in ModuleNames : state.status[m] = StatusOfLevel(get_module_level(state, m))

\* C10 witness: after a call that unlocked a module, the state holds a
\* mastered, a developing, a nascent and a locked module at once
C10_Witness ==
    /\ lastOp.op = "apply_decision_impact"
    /\ \E m \in ModuleNames : state.status[m] = MASTERED
    /\ \E m \in ModuleNames : state.status[m] = DEVELOPING
    /\ \E m \in ModuleNames : state.status[m] = LOCKED
    /\ state.status["humor"] = NASCENT

\* C28: when the breakthrough draw of apply_decision_impact succeeds, the
\* state the unlock scan left is returned unchanged if none of its modules
\* is DEVELOPING; otherwise exactly one module, DEVELOPING in that state,
\* has gained 10 levels and every other module keeps its level.
C28_BreakthroughBoostsOneDeveloping ==
    [][(lastOp'.op = "apply_decision_impact" /\ lastOp'.fires) =>
        \A s3 \in {BeforeBreakthrough(state, lastOp'.decision_impact,
                                      lastOp'.mentor_influence)} :
            LET gained == {m \in ModuleNames :
                              state'.level[m] # s3.level[m] \/ state'.drift[m] # s3.drift[m]}
            IN IF \A m \in ModuleNames : s3.status[m] # DEVELOPING
               THEN state' = s3
               ELSE \E m \in ModuleNames :
                       /\ gained = {m}
                       /\ s3.status[m] = DEVELOPING
                       /\ state'.level[m] = s3.level[m] + BreakthroughBoost]_vars

\* C28 witness: the draw succeeded with empathy and creativity both
\* DEVELOPING (25.0 and 30.05) and empathy was chosen: it stands at 35.0
\* and creativity still at 30.05.
C28_Witness ==
    /\ lastOp.op = "apply_decision_impact"
    /\ lastOp.fires
    /\ lastOp.chosen = "empathy"
    /\ state.level["empathy"] = 3500
    /\ state.level["creativity"] = 3005
    /\ state.status["creativity"] = DEVELOPING

\* C28 witness of the other case: the draw succeeded on the seeded state
\* with an empty impact map; no module is DEVELOPING and the state is the
\* one the unlock scan left (creativity unlocked, nothing else touched)
C28_WitnessNoneDeveloping ==
    /\ lastOp.op = "apply_decision_impact"
    /\ lastOp.fires
    /\ lastOp.chosen = NoChoice
    /\ state = check_module_unlocks(initialize_cognitive_state("test_player"))
    /\ \A m \in ModuleNames : state.status[m] # DEVELOPING

\* total_experience is the sum of the modules' experience_points
ExperienceAgrees(s) ==
    s.total_experience = SumLevels(s.experience_points, DOMAIN s.experience_points)

\* the modules an impact map names
ImpactModules(decision_impact) ==
    {decision_impact[i][1] : i \in 1..Len(decision_impact)}

\* C40: from initialize_cognitive_state on, through every update_module
\* and apply_decision_impact call, total_experience equals the sum of the
\* modules' experience_points; an update_module call naming an unknown
\* module changes neither, and neither do the impacts of an
\* apply_decision_impact call whose map names only unknown modules.
C40_TotalIsSumOfExperience ==
    /\ ExperienceAgrees(state)
    /\ [][/\ ExperienceAgrees(state')
          /\ (lastOp'.op = "update_module" /\ lastOp'.module_name \notin ModuleNames) =>
                /\ state'.experience_points = state.experience_points
                /\ state'.total_experience = state.total_experience
          /\ (lastOp'.op = "apply_decision_impact"
                    /\ ImpactModules(lastOp'.decision_impact) \cap ModuleNames = {}) =>
                LET s1 == ApplyImpacts(state, lastOp'.decision_impact)
                IN /\ s1.experience_points = state.experience_points
                   /\ s1.total_experience = state.total_experience]_vars

\* C40 witness: after a negative and a positive delta, update_module named
\* the unknown module intuition and the totals stand at 10.0
C40_Witness ==
    /\ lastOp.op = "update_module"
    /\ lastOp.module_name = "intuition"
    /\ state.experience_points["logic"] = -500
    /\ state.experience_points["creativity"] = 1500
    /\ state.total_experience = 1000

\* the modules the claim names for each mentor
MentorModules(mentor_influence) ==
    CASE mentor_influence = "COMPASSION" -> {"empathy"}
      [] mentor_influence = "CURIOSITY" -> {"creativity"}
      [] OTHER -> {}

\* C29 as stated: the mentor step of apply_decision_impact adds 0.05 to the
\* level of exactly the modules named among the mentor's traits (empathy
\* for COMPASSION, creativity for CURIOSITY, none for LOGIC and FEAR) and
\* leaves every other module as it was; an absent or unknown mentor
\* changes no module.
C29_MentorBonusAddsFixed ==
    [][lastOp'.op = "apply_decision_impact" =>
        \A s1 \in {ApplyImpacts(state, lastOp'.decision_impact)},
           s2 \in {BeforeUnlockScan(state, lastOp'.decision_impact,
                                    lastOp'.mentor_influence)} :
           \A m \in ModuleNames :
            IF m \in MentorModules(lastOp'.mentor_influence)
            THEN s2.level[m] = s1.level[m] + MentorBonus
            ELSE /\ s2.level[m] = s1.level[m]
                 /\ s2.drift[m] = s1.drift[m]
                 /\ s2.status[m] = s1.status[m]
                 /\ s2.experience_points[m] = s1.experience_points[m]]_vars

\* C29 amended: the mentor step raises the level of exactly the modules
\* named among the mentor's traits by 0.05, up to the cap of 100, and
\* leaves every other module as it was; an absent or unknown mentor
\* changes no module.
C29_MentorBonusAddsFixedUpToCap ==
    [][lastOp'.op = "apply_decision_impact" =>
        \A s1 \in {ApplyImpacts(state, lastOp'.decision_impact)},
           s2 \in {BeforeUnlockScan(state, lastOp'.decision_impact,
                                    lastOp'.mentor_influence)} :
           \A m \in ModuleNames :
            IF m \in MentorModules(lastOp'.mentor_influence)
            THEN s2.level[m] = Min(MaxLevel, s1.level[m] + MentorBonus)
            ELSE /\ s2.level[m] = s1.level[m]
                 /\ s2.drift[m] = s1.drift[m]
                 /\ s2.status[m] = s1.status[m]
                 /\ s2.experience_points[m] = s1.experience_points[m]]_vars

\* C29 witness: CURIOSITY was named with an empty impact map on the seeded
\* state, and creativity alone moved, from 0 to 0.05
C29_Witness ==
    /\ lastOp.op = "apply_decision_impact"
    /\ lastOp.mentor_influence = "CURIOSITY"
    /\ lastOp.decision_impact = <<>>
    /\ ~lastOp.fires
    /\ opCount = 1
    /\ state.level["creativity"] = MentorBonus
    /\ \A m \in core_modules : state.level[m] = SeedLevel

\* C29 witness of the capped case: COMPASSION was named with empathy
\* already at 100, and empathy stays at 100
C29_WitnessAtCap ==
    /\ lastOp.op = "apply_decision_impact"
    /\ lastOp.mentor_influence = "COMPASSION"
    /\ state.level["empathy"] = MaxLevel

--------------------------------------------------------------------------
(* backend/models/memory.py *)

NoTime == -1

\* MemoryImportance multiplier of get_decay_factor
importance_multiplier(importance) ==
    CASE importance = "trivial" -> FloatOf(5, 10)
      [] importance = "minor" -> FloatOf(7, 10)
      [] importance = "significant" -> FloatOf(9, 10)
      [] importance = "critical" -> FloatOf(95, 100)
      [] importance = "core" -> FloatOfInt(1)

\* Memory.get_decay_factor: 1.0 when never accessed, else
\* max(0.1, 1.0 - (days * 0.05 / (1 + access_count * 0.1))) * importance multiplier
get_decay_factor(m, now) ==
    IF m.last_accessed = NoTime THEN FloatOfInt(1)
    ELSE LET days_since_access == now - m.last_accessed
             fading == FloatDiv(FloatMul(FloatOfInt(days_since_access), FloatOf(5, 100)),
                                FloatAdd(FloatOfInt(1),
                                         FloatMul(FloatOfInt(m.access_count),
                                                  FloatOf(1, 10))))
             kept == FloatSub(FloatOfInt(1), fading)
             decay == IF FloatCmp(kept, FloatOf(1, 10)) > 0 THEN kept ELSE FloatOf(1, 10)
         IN FloatMul(decay, importance_multiplier(m.importance))

\* the retention score of consolidate_memories:
\* decay factor * access_count * (1 + len(tags) * 0.1)
retention_score(m, now) ==
    FloatMul(FloatMul(get_decay_factor(m, now), FloatOfInt(m.access_count)),
             FloatAdd(FloatOfInt(1), FloatMul(FloatOfInt(m.tags), FloatOf(1, 10))))

\* insertion that places memory m before the memories of equal score
RECURSIVE InsertByScoreTiesReversed(_, _, _)
InsertByScoreTiesReversed(sorted, m, now) ==
    IF sorted = <<>> THEN <<m>>
    ELSE IF FloatCmp(retention_score(m, now), retention_score(Head(sorted), now)) < 0
         THEN <<Head(sorted)>> \o InsertByScoreTiesReversed(Tail(sorted), m, now)
         ELSE <<m>> \o sorted

\* scored_memories.sort(key=score, reverse=True): stable insertion of memory m
RECURSIVE InsertByScore(_, _, _)
InsertByScore(sorted, m, now) ==
    IF sorted = <<>> THEN <<m>>
    ELSE IF FloatCmp(retention_score(Head(sorted), now), retention_score(m, now)) >= 0
         THEN <<Head(sorted)>> \o InsertByScore(Tail(sorted), m, now)
         ELSE <<m>> \o sorted

RECURSIVE SortByScore(_, _)
SortByScore(memories, now) ==
    IF memories = <<>> THEN <<>>
    ELSE InsertByScore(SortByScore(SubSeq(memories, 1, Len(memories) - 1), now),
                       memories[Len(memories)], now)

\* MemoryBank.consolidate_memories
consolidate_memories(bank, now) ==
    LET scored_memories == SortByScore(bank.memories, now)
    IN [bank EXCEPT !.memories =
            SubSeq(scored_memories, 1, Min(bank.capacity, Len(scored_memories)))]

\* add_memory setting total_memories to the stored count
add_memory_counts_stored(bank, memory, now) ==
    LET b1 == IF Len(bank.memories) >= bank.capacity
              THEN consolidate_memories(bank, now) ELSE bank
    IN [b1 EXCEPT !.memories = Append(@, memory),
                  !.total_memories = Len(b1.memories) + 1]

\* MemoryBank.add_memory
add_memory(bank, memory, now) ==
    LET b1 == IF Len(bank.memories) >= bank.capacity
              THEN consolidate_memories(bank, now) ELSE bank
    IN [b1 EXCEPT !.memories = Append(@, memory), !.total_memories = @ + 1]

\* Memory.access
access(m, now) == [m EXCEPT !.access_count = @ + 1, !.last_accessed = now]

--------------------------------------------------------------------------
(* Memory bank: add_memory, Memory.access and the passing of days on an   *)
(* empty MemoryBank                                                        *)

MaxMemOps == 5

ImportanceInputs == {"trivial", "core"}
TagCountInputs == {0, 2}
DayInputs == {1, 30}

MemInit ==
    /\ state = initialize_cognitive_state("test_player")
    /\ memory_bank = EmptyBank("test_player")
    /\ today = 0
    /\ active_loops = EmptyMap
    /\ loop_history = EmptyMap
    /\ player_states = EmptyMap
    /\ result = Returned(NoResult)
    /\ lastOp = [op |-> "MemoryBank"]
    /\ opCount = 0

\* memory_bank.add_memory(Memory(...)) with a fresh id
AddMemory ==
    /\ opCount < MaxMemOps
    /\ \E importance \in ImportanceInputs, tags \in TagCountInputs :
        LET memory == [id |-> memory_bank.total_memories + 1,
                       importance |-> importance,
                       access_count |-> 0,
                       last_accessed |-> NoTime,
                       tags |-> tags]
        IN /\ memory_bank' = add_memory(memory_bank, memory, today)
           /\ lastOp' = [op |-> "add_memory", memory |-> memory]
    /\ result' = Returned(NoResult)
    /\ opCount' = opCount + 1
    /\ UNCHANGED <<state, today, active_loops, loop_history, player_states>>

\* memory_bank.memories[i].access()
AccessMemory ==
    /\ opCount < MaxMemOps
    /\ \E i \in 1..Len(memory_bank.memories) :
        /\ memory_bank' = [memory_bank EXCEPT !.memories[i] = access(@, today)]
        /\ lastOp' = [op |-> "access", index |-> i]
    /\ result' = Returned(NoResult)
    /\ opCount' = opCount + 1
    /\ UNCHANGED <<state, today, active_loops, loop_history, player_states>>

\* the clock moves on by some days
DaysPass ==
    /\ opCount < MaxMemOps
    /\ \E d \in DayInputs :
        /\ today' = today + d
        /\ lastOp' = [op |-> "days_pass", days |-> d]
    /\ result' = Returned(NoResult)
    /\ opCount' = opCount + 1
    /\ UNCHANGED <<state, memory_bank, active_loops, loop_history, player_states>>

MemNext == AddMemory \/ AccessMemory \/ DaysPass

SpecMem == MemInit /\ [][MemNext]_vars

\* C1: after any sequence of add_memory calls on a bank of capacity C the
\* number of stored memories never exceeds C.
C1_SizeWithinCapacity ==
    Len(memory_bank.memories) <= memory_bank.capacity

\* C34: on a bank of capacity C the stored count never exceeds C + 1, and
\* total_memories counts the add_memory calls made: it is 0 on the new
\* bank, each add_memory call raises it by one, evictions included, and
\* nothing else changes it.
C34_StoredBoundAndCallCount ==
    /\ memory_bank.total_memories = 0
    /\ Len(memory_bank.memories) = 0
    /\ [][/\ Len(memory_bank'.memories) =< memory_bank'.capacity + 1
          /\ memory_bank'.total_memories =
                memory_bank.total_memories + (IF lastOp'.op = "add_memory" THEN 1 ELSE 0)]_vars

\* C34 witness: two more add_memory calls than the capacity were made; one
\* memory was evicted, capacity + 1 are stored and total_memories counts
\* them all
C34_Witness ==
    /\ lastOp.op = "add_memory"
    /\ memory_bank.total_memories = memory_bank.capacity + 2
    /\ Len(memory_bank.memories) = memory_bank.capacity + 1
    /\ \E i \in 1..Len(memory_bank.memories) :
            memory_bank.memories[i].id = memory_bank.capacity + 2

\* position of memory m in a list of distinct memories
IndexIn(memories, m) == CHOOSE i \in 1..Len(memories) : memories[i] = m

\* memory k goes before memory d in the order consolidate_memories keeps:
\* a higher retention score, or the same score and an earlier position
Outranks(memories, k, d, now) ==
    \/ FloatCmp(retention_score(k, now), retention_score(d, now)) > 0
    \/ /\ FloatCmp(retention_score(k, now), retention_score(d, now)) = 0
       /\ IndexIn(memories, k) < IndexIn(memories, d)

\* the memories a consolidating add_memory left in front of the new one
KeptBy(bank) == SubSeq(bank.memories, 1, Len(bank.memories) - 1)

\* C27: the consolidation pass that add_memory runs on a bank at or over
\* capacity keeps exactly min(size, capacity) memories, each of them in the
\* bank before the pass and none twice, and every kept memory has a higher
\* retention score than every dropped one, or the same score and an earlier
\* position in the bank.
C27_ConsolidationKeepsTop ==
    [][(lastOp'.op = "add_memory" /\ Len(memory_bank.memories) >= memory_bank.capacity) =>
        LET before == memory_bank.memories
            kept == KeptBy(memory_bank')
        IN /\ Len(kept) = Min(Len(before), memory_bank.capacity)
           /\ \A i \in 1..Len(kept) : \E j \in 1..Len(before) : before[j] = kept[i]
           /\ \A i, j \in 1..Len(kept) : i # j => kept[i] # kept[j]
           /\ \A j \in 1..Len(before) :
                (\A i \in 1..Len(kept) : kept[i] # before[j]) =>
                    \A i \in 1..Len(kept) : Outranks(before, kept[i], before[j], today)]_vars

\* C27 witness: the bank held one memory over capacity when add_memory ran
\* the pass, which dropped one memory and kept a memory added after it,
\* whose retention score was positive.
C27_Witness ==
    /\ lastOp.op = "add_memory"
    /\ memory_bank.total_memories = memory_bank.capacity + 2
    /\ Len(memory_bank.memories) = memory_bank.capacity + 1
    /\ \E dropped \in 1..(memory_bank.capacity + 1) :
        /\ \A i \in 1..Len(memory_bank.memories) : memory_bank.memories[i].id # dropped
        /\ \E i \in 1..memory_bank.capacity :
            /\ memory_bank.memories[i].id > dropped
            /\ memory_bank.memories[i].access_count > 0

--------------------------------------------------------------------------
(* backend/services/loop_manager.py                                        *)
(* A loop id f"{player_id}_loop_{loop_number}" is held as the sequence of  *)
(* its three parts.  Timestamps (started_at, completed_at, collected_at,   *)
(* stats.completion_time) are not held.                                    *)

LOOP_DURATION_SECONDS == 300

MapPut(f, k, v) == [x \in DOMAIN f \cup {k} |-> IF x = k THEN v ELSE f[x]]
MapDel(f, k) == [x \in DOMAIN f \ {k} |-> f[x]]

MakeLoopId(player_id, loop_number) == <<player_id, "_loop_", loop_number>>

\* LoopManager._calculate_accessibility
calculate_accessibility(cs) ==
    [training_chamber |-> TRUE,
     mentor_sanctum |-> FloatCmp(EvolutionFloat(cs), FloatOfInt(20)) > 0,
     memory_vault |-> cs.loop_number > 5,
     synthesis_lab |-> FloatCmp(get_module_level(cs, "creativity"), FloatOfInt(30)) > 0,
     ethics_courtroom |-> FloatCmp(get_module_level(cs, "ethics"), FloatOfInt(25)) > 0,
     final_chamber |-> FloatCmp(EvolutionFloat(cs), FloatOfInt(70)) > 0]

\* LoopManager._generate_initial_environment
generate_initial_environment(cs) ==
    [visible_chambers |-> Min(4, cs.loop_number + 2),
     accessibility |-> calculate_accessibility(cs)]

\* the loop_data record whose snapshot holds the modules' experience points
NewLoopDataExperienceSnapshot(player_id, cs) ==
    LET loop_number == cs.loop_number + 1
    IN [loop_id |-> MakeLoopId(player_id, loop_number),
        player_id |-> player_id,
        loop_number |-> loop_number,
        duration_seconds |-> LOOP_DURATION_SECONDS,
        time_remaining |-> LOOP_DURATION_SECONDS,
        cognitive_state_start |-> [m \in DOMAIN cs.level |-> LevelFloat(cs.experience_points[m], 0)],
        active_protocols |-> <<>>,
        decisions_made |-> <<>>,
        items_collected |-> <<>>,
        memories_formed |-> <<>>,
        environment_state |-> generate_initial_environment(cs),
        status |-> "active"]

\* the loop_data record numbered with the state's own loop_number
NewLoopDataSameNumber(player_id, cs) ==
    [loop_id |-> MakeLoopId(player_id, cs.loop_number),
     player_id |-> player_id,
     loop_number |-> cs.loop_number,
     duration_seconds |-> LOOP_DURATION_SECONDS,
     time_remaining |-> LOOP_DURATION_SECONDS,
     cognitive_state_start |-> to_dict(cs),
     active_protocols |-> <<>>,
     decisions_made |-> <<>>,
     items_collected |-> <<>>,
     memories_formed |-> <<>>,
     environment_state |-> generate_initial_environment(cs),
     status |-> "active"]

\* the loop_data record start_loop builds
NewLoopData(player_id, cs) ==
    LET loop_number == cs.loop_number + 1
    IN [loop_id |-> MakeLoopId(player_id, loop_number),
        player_id |-> player_id,
        loop_number |-> loop_number,
        duration_seconds |-> LOOP_DURATION_SECONDS,
        time_remaining |-> LOOP_DURATION_SECONDS,
        cognitive_state_start |-> to_dict(cs),
        active_protocols |-> <<>>,
        decisions_made |-> <<>>,
        items_collected |-> <<>>,
        memories_formed |-> <<>>,
        environment_state |-> generate_initial_environment(cs),
        status |-> "active"]

\* start_loop without the "if player_id not in self.loop_history" test
start_loop_resets_history(mgr, player_id, cs) ==
    LET loop_data == NewLoopData(player_id, cs)
    IN [active_loops |-> MapPut(mgr.active_loops, loop_data.loop_id, loop_data),
        loop_history |-> MapPut(mgr.loop_history, player_id, <<>>)]

\* LoopManager.start_loop: the manager [active_loops, loop_history] after the call
start_loop(mgr, player_id, cs) ==
    LET loop_data == NewLoopData(player_id, cs)
    IN [active_loops |-> MapPut(mgr.active_loops, loop_data.loop_id, loop_data),
        loop_history |-> IF player_id \notin DOMAIN mgr.loop_history
                         THEN MapPut(mgr.loop_history, player_id, <<>>)
                         ELSE mgr.loop_history]

RECURSIVE CountCompleted(_)
CountCompleted(protocols) ==
    IF protocols = <<>> THEN 0
    ELSE (IF Head(protocols).completed THEN 1 ELSE 0) + CountCompleted(Tail(protocols))

\* the stats record counting the decisions for items_collected
LoopStatsItemsFromDecisions(loop) ==
    [protocols_completed |-> CountCompleted(loop.active_protocols),
     decisions_made |-> Len(loop.decisions_made),
     items_collected |-> Len(loop.decisions_made),
     memories_formed |-> Len(loop.memories_formed)]

\* the stats record of _complete_loop
LoopStats(loop) ==
    [protocols_completed |-> CountCompleted(loop.active_protocols),
     decisions_made |-> Len(loop.decisions_made),
     items_collected |-> Len(loop.items_collected),
     memories_formed |-> Len(loop.memories_formed)]

\* the archived record of _complete_loop
CompletedLoop(loop) ==
    [x \in DOMAIN loop \cup {"stats"} |->
        IF x = "stats" THEN LoopStats(loop)
        ELSE IF x = "status" THEN "completed"
        ELSE loop[x]]

\* _complete_loop without the closing del self.active_loops[loop_id]
complete_loop_keeps_active(mgr, loop_id) ==
    IF loop_id \notin DOMAIN mgr.active_loops
    THEN [mgr |-> mgr, result |-> Raised("KeyError")]
    ELSE LET loop == CompletedLoop(mgr.active_loops[loop_id])
             player_id == loop.player_id
             history == IF player_id \notin DOMAIN mgr.loop_history
                        THEN MapPut(mgr.loop_history, player_id, <<>>)
                        ELSE mgr.loop_history
         IN [mgr |-> [active_loops |-> [mgr.active_loops EXCEPT ![loop_id] = loop],
                      loop_history |-> [history EXCEPT ![player_id] = Append(@, loop)]],
             result |-> Returned([status |-> "completed",
                                  loop_number |-> loop.loop_number,
                                  stats |-> loop.stats,
                                  ready_for_next |-> TRUE])]

\* LoopManager._complete_loop: [mgr, result]; self.active_loops[loop_id]
\* raises KeyError when the id is not in the active table
complete_loop(mgr, loop_id) ==
    IF loop_id \notin DOMAIN mgr.active_loops
    THEN [mgr |-> mgr, result |-> Raised("KeyError")]
    ELSE LET loop == CompletedLoop(mgr.active_loops[loop_id])
             player_id == loop.player_id
             history == IF player_id \notin DOMAIN mgr.loop_history
                        THEN MapPut(mgr.loop_history, player_id, <<>>)
                        ELSE mgr.loop_history
         IN [mgr |-> [active_loops |-> MapDel(mgr.active_loops, loop_id),
                      loop_history |-> [history EXCEPT ![player_id] = Append(@, loop)]],
             result |-> Returned([status |-> "completed",
                                  loop_number |-> loop.loop_number,
                                  stats |-> loop.stats,
                                  ready_for_next |-> TRUE])]

\* update_loop_timer without the max(0, ...) floor on the remaining time
update_loop_timer_no_floor(mgr, loop_id, elapsed_seconds) ==
    IF loop_id \notin DOMAIN mgr.active_loops
    THEN [mgr |-> mgr, result |-> Returned([status |-> "not_found"])]
    ELSE LET remaining == mgr.active_loops[loop_id].duration_seconds - elapsed_seconds
             mgr1 == [mgr EXCEPT !.active_loops[loop_id].time_remaining = remaining]
             loop == mgr1.active_loops[loop_id]
         IN IF loop.time_remaining = 0 /\ loop.status = "active"
            THEN complete_loop(mgr1, loop_id)
            ELSE [mgr |-> mgr1,
                  result |-> Returned([status |-> "running",
                                       time_remaining |-> loop.time_remaining,
                                       progress |-> <<loop.duration_seconds - loop.time_remaining,
                                                      loop.duration_seconds>>])]

\* update_loop_timer testing time_remaining before it assigns the new value
update_loop_timer_tests_first(mgr, loop_id, elapsed_seconds) ==
    IF loop_id \notin DOMAIN mgr.active_loops
    THEN [mgr |-> mgr, result |-> Returned([status |-> "not_found"])]
    ELSE LET remaining == Max(0, mgr.active_loops[loop_id].duration_seconds - elapsed_seconds)
             mgr1 == [mgr EXCEPT !.active_loops[loop_id].time_remaining = remaining]
             loop == mgr1.active_loops[loop_id]
         IN IF mgr.active_loops[loop_id].time_remaining = 0 /\ loop.status = "active"
            THEN complete_loop(mgr1, loop_id)
            ELSE [mgr |-> mgr1,
                  result |-> Returned([status |-> "running",
                                       time_remaining |-> loop.time_remaining,
                                       progress |-> <<loop.duration_seconds - loop.time_remaining,
                                                      loop.duration_seconds>>])]

\* LoopManager.update_loop_timer: [mgr, result]; progress = 1 - remaining/duration
\* is held as the fraction <<duration - remaining, duration>>
update_loop_timer(mgr, loop_id, elapsed_seconds) ==
    IF loop_id \notin DOMAIN mgr.active_loops
    THEN [mgr |-> mgr, result |-> Returned([status |-> "not_found"])]
    ELSE LET remaining == Max(0, mgr.active_loops[loop_id].duration_seconds - elapsed_seconds)
             mgr1 == [mgr EXCEPT !.active_loops[loop_id].time_remaining = remaining]
             loop == mgr1.active_loops[loop_id]
         IN IF loop.time_remaining = 0 /\ loop.status = "active"
            THEN complete_loop(mgr1, loop_id)
            ELSE [mgr |-> mgr1,
                  result |-> Returned([status |-> "running",
                                       time_remaining |-> loop.time_remaining,
                                       progress |-> <<loop.duration_seconds - loop.time_remaining,
                                                      loop.duration_seconds>>])]

\* add_protocol_to_loop appending the stub with "completed": True
add_protocol_to_loop_completed(mgr, loop_id, protocol) ==
    IF loop_id \notin DOMAIN mgr.active_loops
    THEN [mgr |-> mgr, result |-> Returned(FALSE)]
    ELSE IF mgr.active_loops[loop_id].status # "active"
    THEN [mgr |-> mgr, result |-> Returned(FALSE)]
    ELSE [mgr |-> [mgr EXCEPT !.active_loops[loop_id].active_protocols =
                        Append(@, [protocol_id |-> protocol.id,
                                   type |-> protocol.type,
                                   completed |-> TRUE])],
          result |-> Returned(TRUE)]

\* LoopManager.add_protocol_to_loop: [mgr, result]
add_protocol_to_loop(mgr, loop_id, protocol) ==
    IF loop_id \notin DOMAIN mgr.active_loops
    THEN [mgr |-> mgr, result |-> Returned(FALSE)]
    ELSE IF mgr.active_loops[loop_id].status # "active"
    THEN [mgr |-> mgr, result |-> Returned(FALSE)]
    ELSE [mgr |-> [mgr EXCEPT !.active_loops[loop_id].active_protocols =
                        Append(@, [protocol_id |-> protocol.id,
                                   type |-> protocol.type,
                                   completed |-> FALSE])],
          result |-> Returned(TRUE)]

\* LoopManager.record_decision: [mgr, result]
record_decision(mgr, loop_id, decision, protocol_id) ==
    IF loop_id \notin DOMAIN mgr.active_loops
    THEN [mgr |-> mgr, result |-> Returned(FALSE)]
    ELSE [mgr |-> [mgr EXCEPT !.active_loops[loop_id].decisions_made =
                        Append(@, [protocol_id |-> protocol_id,
                                   choice_id |-> decision.choice_id,
                                   mentor_influence |-> decision.mentor_influence])],
          result |-> Returned(TRUE)]

\* collect_item without the "if loop_id not in self.active_loops" test:
\* self.active_loops[loop_id] raises KeyError
collect_item_no_guard(mgr, loop_id, item_id, item_data) ==
    IF loop_id \notin DOMAIN mgr.active_loops
    THEN [mgr |-> mgr, result |-> Raised("KeyError")]
    ELSE [mgr |-> [mgr EXCEPT !.active_loops[loop_id].items_collected =
                        Append(@, [id |-> item_id,
                                   data |-> item_data,
                                   persists |-> IF "persistent" \in DOMAIN item_data
                                                THEN item_data.persistent ELSE TRUE])],
          result |-> Returned(TRUE)]

\* LoopManager.collect_item: [mgr, result]; item_data.get("persistent", True)
collect_item(mgr, loop_id, item_id, item_data) ==
    IF loop_id \notin DOMAIN mgr.active_loops
    THEN [mgr |-> mgr, result |-> Returned(FALSE)]
    ELSE [mgr |-> [mgr EXCEPT !.active_loops[loop_id].items_collected =
                        Append(@, [id |-> item_id,
                                   data |-> item_data,
                                   persists |-> IF "persistent" \in DOMAIN item_data
                                                THEN item_data.persistent ELSE TRUE])],
          result |-> Returned(TRUE)]

\* LoopManager.form_memory: [mgr, result]
form_memory(mgr, loop_id, memory) ==
    IF loop_id \notin DOMAIN mgr.active_loops
    THEN [mgr |-> mgr, result |-> Returned(FALSE)]
    ELSE [mgr |-> [mgr EXCEPT !.active_loops[loop_id].memories_formed =
                        Append(@, [memory_id |-> memory.id,
                                   importance |-> memory.importance])],
          result |-> Returned(TRUE)]

\* LoopManager._check_special_protocol: the completed flag of the first
\* final_test or breakthrough_scenario protocol, False when there is none
RECURSIVE check_special_protocol(_)
check_special_protocol(protocols) ==
    IF protocols = <<>> THEN FALSE
    ELSE IF Head(protocols).type \in {"final_test", "breakthrough_scenario"}
         THEN Head(protocols).completed
         ELSE check_special_protocol(Tail(protocols))

\* str.lower() on the mentor names check_loop_break_conditions iterates
Lower(mentor) ==
    CASE mentor = "LOGIC" -> "logic"
      [] mentor = "COMPASSION" -> "compassion"
      [] mentor = "CURIOSITY" -> "curiosity"
      [] mentor = "FEAR" -> "fear"

BoolToInt(b) == IF b THEN 1 ELSE 0

\* check_loop_break_conditions with can_break = conditions_met >= 2
check_loop_break_conditions_two_suffice(mgr, loop_id, cs) ==
    IF loop_id \notin DOMAIN mgr.active_loops
    THEN [can_break |-> FALSE, reason |-> "loop_not_found"]
    ELSE LET loop == mgr.active_loops[loop_id]
             conditions ==
                [evolution_threshold |->
                    FloatCmp(EvolutionFloat(cs), FloatOfInt(75)) >= 0,
                 all_mentors_mastered |->
                    \A mentor \in {"LOGIC", "COMPASSION", "CURIOSITY", "FEAR"} :
                        FloatCmp(get_module_level(cs, Lower(mentor)), FloatOfInt(60)) > 0,
                 minimum_loops |-> loop.loop_number >= 10,
                 special_protocol_completed |-> check_special_protocol(loop.active_protocols)]
             conditions_met == BoolToInt(conditions.evolution_threshold)
                             + BoolToInt(conditions.all_mentors_mastered)
                             + BoolToInt(conditions.minimum_loops)
                             + BoolToInt(conditions.special_protocol_completed)
         IN [can_break |-> conditions_met >= 2,
             conditions |-> conditions,
             conditions_met |-> conditions_met,
             conditions_required |-> 3]

\* LoopManager.check_loop_break_conditions: the returned value
check_loop_break_conditions(mgr, loop_id, cs) ==
    IF loop_id \notin DOMAIN mgr.active_loops
    THEN [can_break |-> FALSE, reason |-> "loop_not_found"]
    ELSE LET loop == mgr.active_loops[loop_id]
             conditions ==
                [evolution_threshold |->
                    FloatCmp(EvolutionFloat(cs), FloatOfInt(75)) >= 0,
                 all_mentors_mastered |->
                    \A mentor \in {"LOGIC", "COMPASSION", "CURIOSITY", "FEAR"} :
                        FloatCmp(get_module_level(cs, Lower(mentor)), FloatOfInt(60)) > 0,
                 minimum_loops |-> loop.loop_number >= 10,
                 special_protocol_completed |-> check_special_protocol(loop.active_protocols)]
             conditions_met == BoolToInt(conditions.evolution_threshold)
                             + BoolToInt(conditions.all_mentors_mastered)
                             + BoolToInt(conditions.minimum_loops)
                             + BoolToInt(conditions.special_protocol_completed)
         IN [can_break |-> conditions_met >= 3,
             conditions |-> conditions,
             conditions_met |-> conditions_met,
             conditions_required |-> 3]

\* the loop body of get_persistent_data over the history, from the
\* accumulators items and memories
RECURSIVE CollectPersistent(_, _, _)
CollectPersistent(history, items, memories) ==
    IF history = <<>> THEN [items |-> items, memories |-> memories]
    ELSE LET loop == Head(history)
             IsPersisting(item) == item.persists
         IN CollectPersistent(Tail(history),
                              items \o SelectSeq(loop.items_collected, IsPersisting),
                              memories \o loop.memories_formed)

\* LoopManager.get_persistent_data: the returned value; no record carries
\* areas_unlocked, so unlocked_areas is the empty list
get_persistent_data(mgr, player_id) ==
    IF player_id \notin DOMAIN mgr.loop_history
    THEN [items |-> <<>>, memories |-> <<>>, unlocked_areas |-> <<>>,
          mentor_relationships |-> EmptyMap]
    ELSE LET collected == CollectPersistent(mgr.loop_history[player_id], <<>>, <<>>)
         IN [items |-> collected.items,
             memories |-> collected.memories,
             unlocked_areas |-> <<>>,
             total_loops |-> Len(mgr.loop_history[player_id])]

RECURSIVE SumOver(_, _)
SumOver(history, field) ==
    IF history = <<>> THEN 0
    ELSE Len(Head(history)[field]) + SumOver(Tail(history), field)

\* get_loop_analytics summing decisions_made for items_collected
get_loop_analytics_items_from_decisions(mgr, player_id) ==
    IF player_id \notin DOMAIN mgr.loop_history THEN EmptyMap
    ELSE LET history == mgr.loop_history[player_id]
         IN [total_loops |-> Len(history),
             total_decisions |-> SumOver(history, "decisions_made"),
             total_protocols |-> SumOver(history, "active_protocols"),
             items_collected |-> SumOver(history, "decisions_made"),
             memories_formed |-> SumOver(history, "memories_formed")]

\* LoopManager.get_loop_analytics: the totals of the returned value
\* ({} when the player has no history entry)
get_loop_analytics(mgr, player_id) ==
    IF player_id \notin DOMAIN mgr.loop_history THEN EmptyMap
    ELSE LET history == mgr.loop_history[player_id]
         IN [total_loops |-> Len(history),
             total_decisions |-> SumOver(history, "decisions_made"),
             total_protocols |-> SumOver(history, "active_protocols"),
             items_collected |-> SumOver(history, "items_collected"),
             memories_formed |-> SumOver(history, "memories_formed")]

Manager == [active_loops |-> active_loops, loop_history |-> loop_history]

--------------------------------------------------------------------------
(* Loop manager: the LoopManager calls of tests/test_loop_system.py and    *)
(* demo/interactive_demo.py on one player's state                          *)

MaxLoopOps == 5

LoopPlayer == "test_player"

\* a loop id that start_loop never returned
GhostLoopId == MakeLoopId("ghost", 1)

RECURSIVE ArchivedIds(_)
ArchivedIds(history) ==
    IF history = <<>> THEN {}
    ELSE {Head(history).loop_id} \cup ArchivedIds(Tail(history))

AllArchivedIds ==
    UNION {ArchivedIds(loop_history[p]) : p \in DOMAIN loop_history}

\* loop ids passed to the manager: active, completed and never-started ones
LoopIdInputs == DOMAIN active_loops \cup AllArchivedIds \cup {GhostLoopId}

ElapsedInputs == {60, 300, 400}

LoopInit ==
    /\ state = initialize_cognitive_state(LoopPlayer)
    /\ memory_bank = EmptyBank(LoopPlayer)
    /\ today = 0
    /\ active_loops = EmptyMap
    /\ loop_history = EmptyMap
    /\ player_states = [p \in {LoopPlayer} |-> initialize_cognitive_state(p)]
    /\ result = Returned(NoResult)
    /\ lastOp = [op |-> "LoopManager"]
    /\ opCount = 0

\* applies a [mgr, result] outcome to the manager's tables
Outcome(out) ==
    /\ active_loops' = out.mgr.active_loops
    /\ loop_history' = out.mgr.loop_history
    /\ result' = out.result

\* loop_manager.start_loop(player_id, player_state, memory_bank)
StartLoop ==
    /\ opCount < MaxLoopOps
    /\ \E p \in DOMAIN player_states :
        LET mgr == start_loop(Manager, p, player_states[p])
            loop_id == NewLoopData(p, player_states[p]).loop_id
        IN /\ active_loops' = mgr.active_loops
           /\ loop_history' = mgr.loop_history
           /\ result' = Returned(mgr.active_loops[loop_id])
           /\ lastOp' = [op |-> "start_loop", player_id |-> p, loop_id |-> loop_id]
    /\ opCount' = opCount + 1
    /\ UNCHANGED <<state, memory_bank, today, player_states>>

\* player_state.loop_number += 1 by the caller
IncrementLoopNumber ==
    /\ opCount < MaxLoopOps
    /\ \E p \in DOMAIN player_states :
        /\ player_states' = [player_states EXCEPT ![p].loop_number = @ + 1]
        /\ lastOp' = [op |-> "loop_number += 1", player_id |-> p]
    /\ result' = Returned(NoResult)
    /\ opCount' = opCount + 1
    /\ UNCHANGED <<state, memory_bank, today, active_loops, loop_history>>

\* loop_manager.update_loop_timer(loop_id, elapsed_seconds)
UpdateLoopTimer ==
    /\ opCount < MaxLoopOps
    /\ \E loop_id \in LoopIdInputs, elapsed \in ElapsedInputs :
        /\ Outcome(update_loop_timer(Manager, loop_id, elapsed))
        /\ lastOp' = [op |-> "update_loop_timer", loop_id |-> loop_id, elapsed |-> elapsed]
    /\ opCount' = opCount + 1
    /\ UNCHANGED <<state, memory_bank, today, player_states>>

\* loop_manager.add_protocol_to_loop(loop_id, protocol)
AddProtocolToLoop ==
    /\ opCount < MaxLoopOps
    /\ \E loop_id \in LoopIdInputs :
        /\ Outcome(add_protocol_to_loop(Manager, loop_id,
                                        [id |-> "protocol_1", type |-> "ethical_dilemma"]))
        /\ lastOp' = [op |-> "add_protocol_to_loop", loop_id |-> loop_id]
    /\ opCount' = opCount + 1
    /\ UNCHANGED <<state, memory_bank, today, player_states>>

\* loop_manager.record_decision(loop_id, decision, protocol_id)
RecordDecision ==
    /\ opCount < MaxLoopOps
    /\ \E loop_id \in LoopIdInputs :
        /\ Outcome(record_decision(Manager, loop_id,
                                   [choice_id |-> "choice_a", mentor_influence |-> "LOGIC"],
                                   "protocol_1"))
        /\ lastOp' = [op |-> "record_decision", loop_id |-> loop_id]
    /\ opCount' = opCount + 1
    /\ UNCHANGED <<state, memory_bank, today, player_states>>

\* loop_manager.collect_item(loop_id, item_id, item_data)
CollectItem ==
    /\ opCount < MaxLoopOps
    /\ \E loop_id \in LoopIdInputs,
          item_data \in {[persistent |-> TRUE], [persistent |-> FALSE], [kind |-> "key"]} :
        /\ Outcome(collect_item(Manager, loop_id, "item_1", item_data))
        /\ lastOp' = [op |-> "collect_item", loop_id |-> loop_id, item_data |-> item_data]
    /\ opCount' = opCount + 1
    /\ UNCHANGED <<state, memory_bank, today, player_states>>

\* loop_manager.form_memory(loop_id, memory)
FormMemory ==
    /\ opCount < MaxLoopOps
    /\ \E loop_id \in LoopIdInputs :
        /\ Outcome(form_memory(Manager, loop_id, [id |-> "memory_1", importance |-> "core"]))
        /\ lastOp' = [op |-> "form_memory", loop_id |-> loop_id]
    /\ opCount' = opCount + 1
    /\ UNCHANGED <<state, memory_bank, today, player_states>>

\* loop_manager._complete_loop(loop_id)
CompleteLoop ==
    /\ opCount < MaxLoopOps
    /\ \E loop_id \in LoopIdInputs :
        /\ Outcome(complete_loop(Manager, loop_id))
        /\ lastOp' = [op |-> "_complete_loop", loop_id |-> loop_id]
    /\ opCount' = opCount + 1
    /\ UNCHANGED <<state, memory_bank, today, player_states>>

\* loop_manager.check_loop_break_conditions(loop_id, player_state)
CheckLoopBreakConditions ==
    /\ opCount < MaxLoopOps
    /\ \E loop_id \in LoopIdInputs :
        /\ result' = Returned(check_loop_break_conditions(Manager, loop_id,
                                                          player_states[LoopPlayer]))
        /\ lastOp' = [op |-> "check_loop_break_conditions", loop_id |-> loop_id]
    /\ opCount' = opCount + 1
    /\ UNCHANGED <<state, memory_bank, today, active_loops, loop_history, player_states>>

\* player ids passed to the manager's queries: the test player and one
\* for whom start_loop was never called
QueryPlayers == {LoopPlayer, "ghost"}

\* loop_manager.get_persistent_data(player_id)
GetPersistentData ==
    /\ opCount < MaxLoopOps
    /\ \E p \in QueryPlayers :
        /\ result' = Returned(get_persistent_data(Manager, p))
        /\ lastOp' = [op |-> "get_persistent_data", player_id |-> p]
    /\ opCount' = opCount + 1
    /\ UNCHANGED <<state, memory_bank, today, active_loops, loop_history, player_states>>

LoopNext ==
    \/ GetPersistentData
    \/ StartLoop
    \/ IncrementLoopNumber
    \/ UpdateLoopTimer
    \/ AddProtocolToLoop
    \/ RecordDecision
    \/ CollectItem
    \/ FormMemory
    \/ CompleteLoop
    \/ CheckLoopBreakConditions

SpecLoop == LoopInit /\ [][LoopNext]_vars

HistoryOf(history, p) == IF p \in DOMAIN history THEN history[p] ELSE <<>>

\* C5: complete_loop on the id start_loop returned appends exactly one
\* record for that loop to the player's history and removes the id from the
\* active table, whatever was recorded on the loop in between.
C5_CompleteArchivesOnce ==
    [][\A id \in DOMAIN active_loops :
         (lastOp'.op = "_complete_loop" /\ lastOp'.loop_id = id) =>
            LET loop == active_loops[id]
                before == HistoryOf(loop_history, loop.player_id)
                after == HistoryOf(loop_history', loop.player_id)
            IN /\ Len(after) = Len(before) + 1
               /\ SubSeq(after, 1, Len(before)) = before
               /\ after[Len(after)].loop_id = id
               /\ after[Len(after)].status = "completed"
               /\ after[Len(after)].decisions_made = loop.decisions_made
               /\ after[Len(after)].items_collected = loop.items_collected
               /\ after[Len(after)].memories_formed = loop.memories_formed
               /\ after[Len(after)].active_protocols = loop.active_protocols
               /\ id \notin DOMAIN active_loops'
               /\ \A q \in DOMAIN loop_history \ {loop.player_id} :
                    loop_history'[q] = loop_history[q]]_vars

\* C5 witness: a loop on which a call was recorded has been completed
C5_Witness ==
    /\ lastOp.op = "_complete_loop"
    /\ result.raised = NoException
    /\ lastOp.loop_id \notin DOMAIN active_loops
    /\ LET h == loop_history[LoopPlayer]
       IN /\ Len(h) = 1
          /\ h[1].loop_id = lastOp.loop_id
          /\ Len(h[1].decisions_made) + Len(h[1].items_collected)
               + Len(h[1].memories_formed) + Len(h[1].active_protocols) > 0

\* C6: a second complete_loop on an id that was already completed returns a
\* tagged not-found result, raises nothing and leaves the history and the
\* active table unchanged.
C6_SecondCompleteNotFound ==
    [][(/\ lastOp'.op = "_complete_loop"
        /\ lastOp'.loop_id \in AllArchivedIds
        /\ lastOp'.loop_id \notin DOMAIN active_loops) =>
            /\ result'.raised = NoException
            /\ result'.value = [status |-> "not_found"]
            /\ loop_history' = loop_history
            /\ active_loops' = active_loops]_vars

\* C14: a loop record is active while in the active table and completed
\* once archived; no LoopManager operation changes an archived record, and
\* a player's history only grows at its end.
C14_ArchiveAppendOnly ==
    [][/\ \A p \in DOMAIN loop_history :
            /\ p \in DOMAIN loop_history'
            /\ Len(loop_history'[p]) >= Len(loop_history[p])
            /\ SubSeq(loop_history'[p], 1, Len(loop_history[p])) = loop_history[p]
       /\ \A id \in DOMAIN active_loops' : active_loops'[id].status = "active"
       /\ \A p \in DOMAIN loop_history' :
            \A i \in 1..Len(loop_history'[p]) :
                loop_history'[p][i].status = "completed"]_vars

\* C14 witness: a decision was recorded on a loop started again under the
\* id of an archived one
C14_Witness ==
    /\ lastOp.op = "record_decision"
    /\ result = Returned(TRUE)
    /\ lastOp.loop_id \in AllArchivedIds
    /\ loop_history[LoopPlayer][1].decisions_made = <<>>

\* C15: on a loop id that is not in the active table, record_decision,
\* collect_item, form_memory and add_protocol_to_loop return False,
\* update_loop_timer returns status not_found, check_loop_break_conditions
\* returns can_break False, none raises, and the active table and the
\* history are unchanged.
C15_NotFoundIsAValue ==
    [][(/\ lastOp'.op \in {"record_decision", "collect_item", "form_memory",
                           "add_protocol_to_loop", "update_loop_timer",
                           "check_loop_break_conditions"}
        /\ lastOp'.loop_id \notin DOMAIN active_loops) =>
            /\ result'.raised = NoException
            /\ active_loops' = active_loops
            /\ loop_history' = loop_history
            /\ lastOp'.op \in {"record_decision", "collect_item", "form_memory",
                               "add_protocol_to_loop"} => result'.value = FALSE
            /\ lastOp'.op = "update_loop_timer" => result'.value.status = "not_found"
            /\ lastOp'.op = "check_loop_break_conditions" =>
                    result'.value.can_break = FALSE]_vars

\* C15 witness: collect_item was called on the id of a completed loop
C15_Witness ==
    /\ lastOp.op = "collect_item"
    /\ lastOp.loop_id \in AllArchivedIds
    /\ lastOp.loop_id \notin DOMAIN active_loops
    /\ result = Returned(FALSE)

\* C16: on an active loop of duration D, update_loop_timer(e) with e < D
\* returns status running with time_remaining D - e, stores it and leaves
\* the loop active; with e >= D the remaining time is 0 and the loop is
\* archived, removed from the active table and the completion result returned.
C16_TimerRunsThenCompletes ==
    [][\A id \in DOMAIN active_loops :
         (lastOp'.op = "update_loop_timer" /\ lastOp'.loop_id = id) =>
            LET loop == active_loops[id]
                D == loop.duration_seconds
                e == lastOp'.elapsed
                remaining == IF D - e > 0 THEN D - e ELSE 0
                before == HistoryOf(loop_history, loop.player_id)
                after == HistoryOf(loop_history', loop.player_id)
            IN IF e < D
               THEN /\ result'.raised = NoException
                    /\ result'.value.status = "running"
                    /\ result'.value.time_remaining = remaining
                    /\ id \in DOMAIN active_loops'
                    /\ active_loops'[id] = [loop EXCEPT !.time_remaining = remaining]
                    /\ loop_history' = loop_history
               ELSE /\ result'.raised = NoException
                    /\ result'.value.status = "completed"
                    /\ result'.value.loop_number = loop.loop_number
                    /\ result'.value.ready_for_next
                    /\ id \notin DOMAIN active_loops'
                    /\ after = Append(before, after[Len(after)])
                    /\ after[Len(after)].loop_id = id
                    /\ after[Len(after)].status = "completed"
                    /\ after[Len(after)].time_remaining = 0]_vars

\* C16 witness: a timer update past the duration completed a loop, which
\* was archived with remaining time 0
C16_Witness ==
    /\ lastOp.op = "update_loop_timer"
    /\ lastOp.elapsed > LOOP_DURATION_SECONDS
    /\ result.raised = NoException
    /\ result.value.status = "completed"
    /\ lastOp.loop_id \notin DOMAIN active_loops
    /\ loop_history[LoopPlayer][1].time_remaining = 0

\* the items with persists true among the first i archived loops, in order
RECURSIVE PersistingItemsUpTo(_, _)
PersistingItemsUpTo(history, i) ==
    IF i = 0 THEN <<>>
    ELSE LET kept == {k \in 1..Len(history[i].items_collected) :
                         history[i].items_collected[k].persists}
             Nth(n) == CHOOSE k \in kept : Cardinality({j \in kept : j <= k}) = n
         IN PersistingItemsUpTo(history, i - 1)
              \o [n \in 1..Cardinality(kept) |-> history[i].items_collected[Nth(n)]]

\* the memory stubs of the first i archived loops, in order
RECURSIVE MemoriesUpTo(_, _)
MemoriesUpTo(history, i) ==
    IF i = 0 THEN <<>> ELSE MemoriesUpTo(history, i - 1) \o history[i].memories_formed

\* C22: for every agent, get_persistent_data returns exactly
\* the persisting items and all memory stubs of the agent's archived loops,
\* nothing of an active loop, total_loops = the number of archived loops,
\* and changes neither table.
C22_PersistentDataReadsHistory ==
    [][lastOp'.op = "get_persistent_data" =>
         LET history == HistoryOf(loop_history, lastOp'.player_id)
         IN /\ result'.raised = NoException
            /\ result'.value.items = PersistingItemsUpTo(history, Len(history))
            /\ result'.value.memories = MemoriesUpTo(history, Len(history))
            /\ "total_loops" \in DOMAIN result'.value
            /\ result'.value.total_loops = Len(history)
            /\ active_loops' = active_loops
            /\ loop_history' = loop_history]_vars

\* the loop records the manager holds, active and archived
AllLoopRecords ==
    {active_loops[id] : id \in DOMAIN active_loops}
        \cup UNION {{loop_history[p][i] : i \in 1..Len(loop_history[p])} :
                        p \in DOMAIN loop_history}

\* C37: in every state reached through the manager's operations every
\* protocol stub has completed = false, every archived loop has
\* stats.protocols_completed = 0, and the special-protocol break condition
\* is false, on the records and in every check_loop_break_conditions result.
C37_NoProtocolEverCompleted ==
    /\ \A loop \in AllLoopRecords :
        /\ \A i \in 1..Len(loop.active_protocols) : ~loop.active_protocols[i].completed
        /\ ~check_special_protocol(loop.active_protocols)
    /\ \A p \in DOMAIN loop_history :
        \A i \in 1..Len(loop_history[p]) : loop_history[p][i].stats.protocols_completed = 0
    /\ (lastOp.op = "check_loop_break_conditions" /\ lastOp.loop_id \in DOMAIN active_loops) =>
            ~result.value.conditions.special_protocol_completed

\* C37 witness: a loop that was given two protocols is archived with
\* protocols_completed 0
C37_Witness ==
    /\ LoopPlayer \in DOMAIN loop_history
    /\ Len(loop_history[LoopPlayer]) = 1
    /\ Len(loop_history[LoopPlayer][1].active_protocols) = 2
    /\ loop_history[LoopPlayer][1].stats.protocols_completed = 0

\* C36: every record of the active table has status active, and every
\* record of any player's history has status completed and stats whose
\* decisions, items and memories counts are the lengths of the record's
\* decisions_made, items_collected and memories_formed lists.
C36_StatusAndStatsAgree ==
    /\ \A id \in DOMAIN active_loops : active_loops[id].status = "active"
    /\ \A p \in DOMAIN loop_history :
        \A i \in 1..Len(loop_history[p]) :
            LET loop == loop_history[p][i]
            IN /\ loop.status = "completed"
               /\ loop.stats.decisions_made = Len(loop.decisions_made)
               /\ loop.stats.items_collected = Len(loop.items_collected)
               /\ loop.stats.memories_formed = Len(loop.memories_formed)

\* C36 witness: a loop with one decision and one item is archived while
\* the next loop is active
C36_Witness ==
    /\ LoopPlayer \in DOMAIN loop_history
    /\ Len(loop_history[LoopPlayer]) = 1
    /\ loop_history[LoopPlayer][1].stats.decisions_made = 1
    /\ loop_history[LoopPlayer][1].stats.items_collected = 1
    /\ loop_history[LoopPlayer][1].stats.memories_formed = 0
    /\ \E id \in DOMAIN active_loops : active_loops[id].status = "active"

\* C35: in every player's history the archived records have pairwise
\* distinct loop ids and strictly increasing loop numbers in archive order,
\* whatever the sequence of start_loop and completion calls, a start_loop
\* after a completion without a loop_number increment included.
C35_HistoryIdsDistinctNumbersIncreasing ==
    \A p \in DOMAIN loop_history :
        \A i, j \in 1..Len(loop_history[p]) :
            i < j => /\ loop_history[p][i].loop_id # loop_history[p][j].loop_id
                     /\ loop_history[p][i].loop_number < loop_history[p][j].loop_number

\* C30: start_loop leaves the supplied cognitive state as it was (its
\* loop_number included) and returns a record, stored in the active table
\* under its loop id, whose status is active, whose loop_number is the
\* state's loop_number plus one, whose loop id is the player id, the text
\* _loop_ and that number, and whose decision, item, memory and protocol
\* lists are empty.
C30_StartLoopFrame ==
    [][lastOp'.op = "start_loop" =>
        LET p == lastOp'.player_id
            loop == result'.value
        IN /\ player_states' = player_states
           /\ result'.raised = NoException
           /\ loop.status = "active"
           /\ loop.player_id = p
           /\ loop.loop_number = player_states[p].loop_number + 1
           /\ loop.loop_id = <<p, "_loop_", player_states[p].loop_number + 1>>
           /\ loop.decisions_made = <<>>
           /\ loop.items_collected = <<>>
           /\ loop.memories_formed = <<>>
           /\ loop.active_protocols = <<>>
           /\ loop.loop_id \in DOMAIN active_loops'
           /\ active_loops'[loop.loop_id] = loop]_vars

\* C30 witness: start_loop was called for a player whose loop_number is 1,
\* with one loop archived, and returned loop 2
C30_Witness ==
    /\ lastOp.op = "start_loop"
    /\ player_states[LoopPlayer].loop_number = 1
    /\ LoopPlayer \in DOMAIN loop_history
    /\ Len(loop_history[LoopPlayer]) = 1
    /\ result.value.loop_id = <<LoopPlayer, "_loop_", 2>>
    /\ result.value.loop_number = 2

--------------------------------------------------------------------------
(* Loop iterations: the loop of tests/test_loop_system.py                  *)
(* test_multiple_loops (start_loop, _complete_loop, loop_number += 1),     *)
(* with calls recorded on the running loop, and get_loop_analytics after   *)
(* whole iterations                                                        *)

MaxIterations == 3
MaxRecordsPerLoop == 1

\* the id of the test player's running loop
RunningLoopId == MakeLoopId(LoopPlayer, player_states[LoopPlayer].loop_number + 1)

\* the number of calls recorded on a loop record
RecordsOn(loop) ==
    Len(loop.decisions_made) + Len(loop.items_collected) + Len(loop.memories_formed)

\* loop_manager.start_loop at the top of an iteration
IterStartLoop ==
    /\ lastOp.op \in {"LoopManager", "loop_number += 1", "get_loop_analytics"}
    /\ player_states[LoopPlayer].loop_number < MaxIterations
    /\ LET mgr == start_loop(Manager, LoopPlayer, player_states[LoopPlayer])
       IN /\ active_loops' = mgr.active_loops
          /\ loop_history' = mgr.loop_history
          /\ result' = Returned(mgr.active_loops[RunningLoopId])
          /\ lastOp' = [op |-> "start_loop", player_id |-> LoopPlayer,
                        loop_id |-> RunningLoopId]
    /\ opCount' = opCount + 1
    /\ UNCHANGED <<state, memory_bank, today, player_states>>

\* record_decision, collect_item or form_memory on the running loop
IterRecord ==
    /\ lastOp.op \in {"start_loop", "record_decision", "collect_item", "form_memory"}
    /\ RunningLoopId \in DOMAIN active_loops
    /\ RecordsOn(active_loops[RunningLoopId]) < MaxRecordsPerLoop
    /\ \/ /\ Outcome(record_decision(Manager, RunningLoopId,
                                     [choice_id |-> "choice_a", mentor_influence |-> "LOGIC"],
                                     "protocol_1"))
          /\ lastOp' = [op |-> "record_decision", loop_id |-> RunningLoopId]
       \/ /\ Outcome(collect_item(Manager, RunningLoopId, "item_1", [persistent |-> FALSE]))
          /\ lastOp' = [op |-> "collect_item", loop_id |-> RunningLoopId]
       \/ /\ Outcome(form_memory(Manager, RunningLoopId,
                                 [id |-> "memory_1", importance |-> "core"]))
          /\ lastOp' = [op |-> "form_memory", loop_id |-> RunningLoopId]
    /\ opCount' = opCount + 1
    /\ UNCHANGED <<state, memory_bank, today, player_states>>

\* loop_manager._complete_loop(loop_data["loop_id"])
IterCompleteLoop ==
    /\ lastOp.op \in {"start_loop", "record_decision", "collect_item", "form_memory"}
    /\ Outcome(complete_loop(Manager, RunningLoopId))
    /\ lastOp' = [op |-> "_complete_loop", loop_id |-> RunningLoopId]
    /\ opCount' = opCount + 1
    /\ UNCHANGED <<state, memory_bank, today, player_states>>

\* player_state.loop_number += 1 at the end of an iteration
IterIncrement ==
    /\ lastOp.op = "_complete_loop"
    /\ player_states' = [player_states EXCEPT ![LoopPlayer].loop_number = @ + 1]
    /\ lastOp' = [op |-> "loop_number += 1", player_id |-> LoopPlayer]
    /\ result' = Returned(NoResult)
    /\ opCount' = opCount + 1
    /\ UNCHANGED <<state, memory_bank, today, active_loops, loop_history>>

\* loop_manager.get_loop_analytics("test_player") after whole iterations
IterGetLoopAnalytics ==
    /\ lastOp.op = "loop_number += 1"
    /\ result' = Returned(get_loop_analytics(Manager, LoopPlayer))
    /\ lastOp' = [op |-> "get_loop_analytics", player_id |-> LoopPlayer]
    /\ opCount' = opCount + 1
    /\ UNCHANGED <<state, memory_bank, today, active_loops, loop_history, player_states>>

IterNext ==
    \/ IterStartLoop
    \/ IterRecord
    \/ IterCompleteLoop
    \/ IterIncrement
    \/ IterGetLoopAnalytics

SpecIterate == LoopInit /\ [][IterNext]_vars

\* the number of entries of the named list over the archived loops
ListTotal(history, field) ==
    Cardinality({<<i, k>> \in (1..Len(history)) \X (1..MaxRecordsPerLoop) :
                    k <= Len(history[i][field])})

\* C23: after n >= 1 iterations of start_loop, _complete_loop and the
\* caller's loop_number += 1, get_loop_analytics reports total_loops = n and
\* decision, item and memory totals equal to the numbers of decisions, items
\* and memories held by the archived loops.
C23_AnalyticsTotals ==
    lastOp.op = "get_loop_analytics" =>
        LET n == player_states[LoopPlayer].loop_number
            history == loop_history[LoopPlayer]
        IN /\ n >= 1
           /\ result.raised = NoException
           /\ result.value.total_loops = n
           /\ Len(history) = n
           /\ result.value.total_decisions = ListTotal(history, "decisions_made")
           /\ result.value.items_collected = ListTotal(history, "items_collected")
           /\ result.value.memories_formed = ListTotal(history, "memories_formed")

\* C23 witness: analytics after three iterations whose loops recorded a
\* decision, an item and a memory
C23_Witness ==
    /\ lastOp.op = "get_loop_analytics"
    /\ result.value.total_loops = 3
    /\ result.value.total_decisions = 1
    /\ result.value.items_collected = 1
    /\ result.value.memories_formed = 1

--------------------------------------------------------------------------
(* backend/routes/protocol_routes.py and the fork-consciousness request of *)
(* backend/routes/social_routes.py: the requests that write the loop       *)
(* manager's tables and the players' states                                *)

MaxRouteOps == 4

Players == {"p1", "p2"}

\* make_decision's sample_impact {"logic": 0.1, "empathy": 0.05}
sample_impact == << <<"logic", 10>>, <<"empathy", 5>> >>

RouteInit ==
    /\ state = initialize_cognitive_state("test_player")
    /\ memory_bank = EmptyBank("test_player")
    /\ today = 0
    /\ active_loops = EmptyMap
    /\ loop_history = EmptyMap
    /\ player_states = EmptyMap
    /\ result = Returned(NoResult)
    /\ lastOp = [op |-> "app"]
    /\ opCount = 0

\* POST /start-loop
RouteStartLoop ==
    /\ opCount < MaxRouteOps
    /\ \E player_id \in Players :
        \E states \in {IF player_id \notin DOMAIN player_states
                       THEN MapPut(player_states, player_id,
                                   initialize_cognitive_state(player_id))
                       ELSE player_states} :
        LET cognitive_state == states[player_id]
            mgr == start_loop(Manager, player_id, cognitive_state)
            loop_data == NewLoopData(player_id, cognitive_state)
        IN /\ player_states' = states
           /\ active_loops' = mgr.active_loops
           /\ loop_history' = mgr.loop_history
           /\ result' = Returned([success |-> TRUE,
                                  loop_id |-> loop_data.loop_id,
                                  loop_number |-> loop_data.loop_number,
                                  duration |-> loop_data.duration_seconds,
                                  environment |-> loop_data.environment_state])
           /\ lastOp' = [op |-> "POST /start-loop", player_id |-> player_id]
    /\ opCount' = opCount + 1
    /\ UNCHANGED <<state, memory_bank, today>>

\* the confidence values of a request, in hundredths: below 0, 1.0, above 1
ConfidenceInputs == {-1, 100, 101}

\* Decision(..., confidence=confidence): Field(ge=0.0, le=1.0) accepts it
ValidConfidence(confidence) ==
    /\ FloatCmp(Hundredths(confidence), FloatZero) >= 0
    /\ FloatCmp(Hundredths(confidence), FloatOfInt(1)) <= 0

\* POST /make-decision: 404 for an unknown player, a ValidationError from
\* Decision(...) for a confidence outside [0, 1], both before any change
RouteMakeDecision ==
    /\ opCount < MaxRouteOps
    /\ \E player_id \in Players, confidence \in ConfidenceInputs, fires \in BOOLEAN :
        IF player_id \notin DOMAIN player_states
        THEN /\ ~fires
             /\ result' = Raised("HTTPException 404")
             /\ lastOp' = [op |-> "POST /make-decision", player_id |-> player_id,
                           confidence |-> confidence, fires |-> fires,
                           chosen |-> NoChoice]
             /\ UNCHANGED player_states
        ELSE IF ~ValidConfidence(confidence)
        THEN /\ ~fires
             /\ result' = Raised("ValidationError")
             /\ lastOp' = [op |-> "POST /make-decision", player_id |-> player_id,
                           confidence |-> confidence, fires |-> fires,
                           chosen |-> NoChoice]
             /\ UNCHANGED player_states
        ELSE \E chosen \in BreakthroughChoices(player_states[player_id], sample_impact,
                                               "LOGIC", fires) :
               \E updated_state \in {apply_decision_impact(player_states[player_id],
                                                           sample_impact, "LOGIC",
                                                           fires, chosen)} :
                    /\ player_states' = [player_states EXCEPT ![player_id] = updated_state]
                    /\ result' = Returned([success |-> TRUE,
                                           new_state |-> to_dict(updated_state),
                                           evolution_score |-> EvolutionFloat(updated_state)])
                    /\ lastOp' = [op |-> "POST /make-decision", player_id |-> player_id,
                                  confidence |-> confidence, fires |-> fires,
                                  chosen |-> chosen]
    /\ opCount' = opCount + 1
    /\ UNCHANGED <<state, memory_bank, today, active_loops, loop_history>>

\* POST /complete-loop
RouteCompleteLoop ==
    /\ opCount < MaxRouteOps
    /\ \E loop_id \in LoopIdInputs, player_id \in Players :
        /\ IF player_id \notin DOMAIN player_states
           THEN /\ result' = Raised("HTTPException 404")
                /\ UNCHANGED player_states
           ELSE LET cognitive_state ==
                        [player_states[player_id] EXCEPT !.loop_number = @ + 1]
                    break_check == check_loop_break_conditions(Manager, loop_id,
                                                               cognitive_state)
                IN /\ player_states' = [player_states EXCEPT ![player_id] = cognitive_state]
                   /\ result' = Returned([success |-> TRUE,
                                          loop_completed |-> cognitive_state.loop_number - 1,
                                          can_break_loop |-> break_check.can_break,
                                          break_conditions |-> break_check,
                                          analytics |-> get_loop_analytics(Manager, player_id),
                                          ready_for_next |-> TRUE])
        /\ lastOp' = [op |-> "POST /complete-loop", loop_id |-> loop_id,
                      player_id |-> player_id]
    /\ opCount' = opCount + 1
    /\ UNCHANGED <<state, memory_bank, today, active_loops, loop_history>>

\* websocket_loop: a timer_update message
WsTimerUpdate ==
    /\ opCount < MaxRouteOps
    /\ \E loop_id \in LoopIdInputs, elapsed \in ElapsedInputs :
        /\ Outcome(update_loop_timer(Manager, loop_id, elapsed))
        /\ lastOp' = [op |-> "ws timer_update", loop_id |-> loop_id, elapsed |-> elapsed]
    /\ opCount' = opCount + 1
    /\ UNCHANGED <<state, memory_bank, today, player_states>>

\* the modules_to_fork lists of a request: a known module, two of them, a
\* name no state has
ForkInputs == {<<"logic">>, <<"logic", "creativity">>, <<"intuition">>}

\* the loop of fork_consciousness: target.modules[name] =
\* source.modules[name].model_copy() for each listed name the source has
RECURSIVE ForkModules(_, _, _)
ForkModules(source_state, target_state, modules_to_fork) ==
    IF modules_to_fork = <<>> THEN target_state
    ELSE ForkModules(source_state,
            Only({IF module_name \in DOMAIN source_state.level
                  THEN [target_state EXCEPT
                            !.level[module_name] = source_state.level[module_name],
                            !.drift[module_name] = source_state.drift[module_name],
                            !.status[module_name] = source_state.status[module_name],
                            !.experience_points[module_name] =
                                source_state.experience_points[module_name],
                            !.unlock_requirements[module_name] =
                                source_state.unlock_requirements[module_name]]
                  ELSE target_state : module_name \in {Head(modules_to_fork)}}),
            Tail(modules_to_fork))

\* POST /api/social/fork-consciousness, on the player_states of
\* protocol_routes
RouteForkConsciousness ==
    /\ opCount < MaxRouteOps
    /\ \E source_player \in Players, target_player \in Players,
          modules_to_fork \in ForkInputs :
        /\ IF source_player \notin DOMAIN player_states
              \/ target_player \notin DOMAIN player_states
           THEN /\ result' = Raised("HTTPException 404")
                /\ UNCHANGED player_states
           ELSE \E target_state \in
                    {calculate_evolution_score(
                        ForkModules(player_states[source_player],
                                    player_states[target_player], modules_to_fork))} :
                    /\ player_states' = [player_states EXCEPT ![target_player] = target_state]
                    /\ result' = Returned([success |-> TRUE,
                                           forked_modules |-> modules_to_fork,
                                           new_evolution_score |-> EvolutionFloat(target_state)])
        /\ lastOp' = [op |-> "POST /fork-consciousness", source_player |-> source_player,
                      target_player |-> target_player, modules_to_fork |-> modules_to_fork]
    /\ opCount' = opCount + 1
    /\ UNCHANGED <<state, memory_bank, today, active_loops, loop_history>>

RouteNext ==
    \/ RouteStartLoop
    \/ RouteMakeDecision
    \/ RouteCompleteLoop
    \/ WsTimerUpdate
    \/ RouteForkConsciousness

SpecRoutes == RouteInit /\ [][RouteNext]_vars

\* C8: the loop counter is incremented exactly once per completed loop:
\* through the routes, every player's loop_number equals the number of that
\* player's loops archived in the history.
C8_LoopNumberCountsArchived ==
    \A p \in DOMAIN player_states :
        player_states[p].loop_number = Len(HistoryOf(loop_history, p))

\* C17: the state initialize_cognitive_state creates for a new player holds
\* every known module, with logic, empathy, curiosity and fear at level 5.0
\* and NASCENT, every other module at level 0 and LOCKED, loop_number 0 and
\* evolution_score 2.5.
C17_InitialStateIsSeeded ==
    [][\A p \in Players :
         (p \notin DOMAIN player_states /\ p \in DOMAIN player_states') =>
            LET s == player_states'[p]
                seeded == {"logic", "empathy", "curiosity", "fear"}
            IN /\ DOMAIN s.level = ModuleNames
               /\ DOMAIN s.status = ModuleNames
               /\ \A m \in seeded :
                    /\ FloatCmp(get_module_level(s, m), FloatOfInt(5)) = 0
                    /\ s.status[m] = NASCENT
               /\ \A m \in ModuleNames \ seeded :
                    /\ FloatCmp(get_module_level(s, m), FloatZero) = 0
                    /\ s.status[m] = LOCKED
               /\ s.loop_number = 0
               /\ FloatCmp(EvolutionFloat(s), FloatOf(25, 10)) = 0]_vars

\* C17 witness: p2's state has just been created by POST /start-loop while
\* p1's state has already moved on
C17_Witness ==
    /\ lastOp.op = "POST /start-loop"
    /\ lastOp.player_id = "p2"
    /\ DOMAIN player_states = {"p1", "p2"}
    /\ player_states["p2"].status["creativity"] = LOCKED
    /\ player_states["p2"].evolution_score = 2000
    /\ player_states["p1"].level["logic"] > 500

--------------------------------------------------------------------------
(* Break conditions: check_loop_break_conditions on a loop of the test     *)
(* player, whose state is brought up by apply_decision_impact and by the   *)
(* field assignments of tests/test_loop_system.py                          *)

MaxBreakOps == 4

\* impact maps that lift every module to 80, the core modules to 61, to 60
BreakImpacts ==
    { << <<"logic", 7500>>, <<"empathy", 7500>>, <<"creativity", 8000>>, <<"fear", 7500>>,
         <<"trust", 8000>>, <<"humor", 8000>>, <<"curiosity", 7500>>, <<"ethics", 8000>> >>,
      << <<"logic", 5600>>, <<"empathy", 5600>>, <<"curiosity", 5600>>, <<"fear", 5600>> >>,
      << <<"logic", 5500>>, <<"empathy", 5500>>, <<"curiosity", 5500>>, <<"fear", 5500>> >> }

LoopNumberInputs == {9, 12, 15}

\* evolution_score 75 and 80
ScoreInputs == {60000, 64000}

\* loop_manager.start_loop(player_id, player_state, memory_bank)
BreakStartLoop ==
    /\ opCount < MaxBreakOps
    /\ \E p \in DOMAIN player_states :
        LET mgr == start_loop(Manager, p, player_states[p])
            loop_id == NewLoopData(p, player_states[p]).loop_id
        IN /\ active_loops' = mgr.active_loops
           /\ loop_history' = mgr.loop_history
           /\ result' = Returned(mgr.active_loops[loop_id])
           /\ lastOp' = [op |-> "start_loop", player_id |-> p, loop_id |-> loop_id]
    /\ opCount' = opCount + 1
    /\ UNCHANGED <<state, memory_bank, today, player_states>>

\* evolution_engine.apply_decision_impact(player_state, impact, None), no breakthrough
BreakApplyImpact ==
    /\ opCount < MaxBreakOps
    /\ \E decision_impact \in BreakImpacts :
        /\ player_states' = [player_states EXCEPT ![LoopPlayer] =
                apply_decision_impact(@, decision_impact, NoMentor, FALSE, NoChoice)]
        /\ lastOp' = [op |-> "apply_decision_impact", decision_impact |-> decision_impact]
    /\ result' = Returned("state")
    /\ opCount' = opCount + 1
    /\ UNCHANGED <<state, memory_bank, today, active_loops, loop_history>>

\* player_state.loop_number = n
BreakSetLoopNumber ==
    /\ opCount < MaxBreakOps
    /\ \E n \in LoopNumberInputs :
        /\ player_states' = [player_states EXCEPT ![LoopPlayer].loop_number = n]
        /\ lastOp' = [op |-> "loop_number =", loop_number |-> n]
    /\ result' = Returned(NoResult)
    /\ opCount' = opCount + 1
    /\ UNCHANGED <<state, memory_bank, today, active_loops, loop_history>>

\* player_state.evolution_score = v
BreakSetEvolutionScore ==
    /\ opCount < MaxBreakOps
    /\ \E v \in ScoreInputs :
        /\ player_states' = [player_states EXCEPT ![LoopPlayer].evolution_score = v,
                                                  ![LoopPlayer].evolution_drift = <<0, 0, 0>>]
        /\ lastOp' = [op |-> "evolution_score =", evolution_score |-> v]
    /\ result' = Returned(NoResult)
    /\ opCount' = opCount + 1
    /\ UNCHANGED <<state, memory_bank, today, active_loops, loop_history>>

\* loop_manager.check_loop_break_conditions(loop_id, player_state)
BreakCheck ==
    /\ opCount < MaxBreakOps
    /\ \E loop_id \in LoopIdInputs :
        /\ result' = Returned(check_loop_break_conditions(Manager, loop_id,
                                                          player_states[LoopPlayer]))
        /\ lastOp' = [op |-> "check_loop_break_conditions", loop_id |-> loop_id]
    /\ opCount' = opCount + 1
    /\ UNCHANGED <<state, memory_bank, today, active_loops, loop_history, player_states>>

BreakNext ==
    \/ BreakStartLoop
    \/ BreakApplyImpact
    \/ BreakSetLoopNumber
    \/ BreakSetEvolutionScore
    \/ BreakCheck

SpecBreak == LoopInit /\ [][BreakNext]_vars

\* C7: for an active loop and a state with evolution_score = 80,
\* loop_number = 12 and logic, empathy, curiosity and fear above 60,
\* check_loop_break_conditions reports the evolution, all-core and
\* minimum-loops conditions as true and returns can_break = true.
C7_BreakConditionsMet ==
    (/\ lastOp.op = "check_loop_break_conditions"
     /\ lastOp.loop_id \in DOMAIN active_loops
     /\ FloatCmp(EvolutionFloat(player_states[LoopPlayer]), FloatOfInt(80)) = 0
     /\ player_states[LoopPlayer].loop_number = 12
     /\ \A m \in core_modules :
            FloatCmp(get_module_level(player_states[LoopPlayer], m), FloatOfInt(60)) > 0) =>
        /\ result.value.conditions.evolution_threshold
        /\ result.value.conditions.all_mentors_mastered
        /\ result.value.conditions.minimum_loops
        /\ result.value.conditions_met >= 3
        /\ result.value.can_break

\* C20: for an active loop, check_loop_break_conditions reports four
\* conditions, conditions_met is the number of them that are true, and
\* can_break is true iff at least 3 of them are true.
C20_CanBreakIffThreeOfFour ==
    (lastOp.op = "check_loop_break_conditions" /\ lastOp.loop_id \in DOMAIN active_loops) =>
        LET conditions == result.value.conditions
            holding == {c \in DOMAIN conditions : conditions[c]}
        IN /\ Cardinality(DOMAIN conditions) = 4
           /\ result.value.conditions_met = Cardinality(holding)
           /\ result.value.can_break <=> Cardinality(holding) >= 3

\* C20 witness: a check on an active loop found exactly the evolution and
\* minimum-loops conditions true and refused the break
C20_Witness ==
    /\ lastOp.op = "check_loop_break_conditions"
    /\ lastOp.loop_id \in DOMAIN active_loops
    /\ result.value.conditions.evolution_threshold
    /\ result.value.conditions.minimum_loops
    /\ result.value.conditions_met = 2
    /\ ~result.value.can_break

\* C21: for an active loop, check_loop_break_conditions with a state whose
\* evolution_score is at least 75 and whose loop_number is at least 10
\* reports the evolution-threshold and minimum-loops conditions as met and
\* conditions_met >= 2; with a freshly initialized state it reports
\* can_break = false.
C21_ScoreAndLoopsCountAsMet ==
    (lastOp.op = "check_loop_break_conditions" /\ lastOp.loop_id \in DOMAIN active_loops) =>
        LET cs == player_states[LoopPlayer]
        IN /\ (/\ FloatCmp(EvolutionFloat(cs), FloatOfInt(75)) >= 0
               /\ cs.loop_number >= 10) =>
                    /\ result.value.conditions.evolution_threshold
                    /\ result.value.conditions.minimum_loops
                    /\ result.value.conditions_met >= 2
           /\ cs = initialize_cognitive_state(LoopPlayer) => ~result.value.can_break

--------------------------------------------------------------------------
(* Protocol difficulty: calculate_protocol_difficulty on a state whose     *)
(* levels are assigned as in tests/test_evolution.py                       *)

\* EvolutionEngine._get_relevant_modules
get_relevant_modules(protocol_type) ==
    CASE protocol_type = "ethical_dilemma" -> <<"empathy", "logic", "ethics">>
      [] protocol_type = "logic_puzzle" -> <<"logic", "creativity", "curiosity">>
      [] protocol_type = "emotion_calibration" -> <<"empathy", "fear", "trust">>
      [] protocol_type = "memory_compression" -> <<"logic", "curiosity">>
      [] protocol_type = "bias_identification" -> <<"logic", "ethics", "empathy">>
      [] protocol_type = "empathy_simulation" -> <<"empathy", "trust", "ethics">>
      [] protocol_type = "creative_synthesis" -> <<"creativity", "curiosity", "logic">>
      [] protocol_type = "trust_evaluation" -> <<"trust", "empathy", "fear">>
      [] OTHER -> <<"logic", "empathy">>

\* sum(state.get_module_level(m) for m in relevant_modules): added one by
\* one from 0
RECURSIVE SumModuleLevels(_, _)
SumModuleLevels(s, names) ==
    IF names = <<>> THEN FloatZero
    ELSE FloatAdd(SumModuleLevels(s, SubSeq(names, 1, Len(names) - 1)),
                  get_module_level(s, names[Len(names)]))

\* calculate_protocol_difficulty with <= in place of < at the thresholds
calculate_protocol_difficulty_inclusive(s, protocol_type) ==
    LET relevant_modules == get_relevant_modules(protocol_type)
        avg_level == IF relevant_modules = <<>> THEN FloatZero
                     ELSE FloatDiv(SumModuleLevels(s, relevant_modules),
                                   FloatOfInt(Len(relevant_modules)))
    IN IF FloatCmp(avg_level, FloatOfInt(20)) <= 0 THEN "nascent"
       ELSE IF FloatCmp(avg_level, FloatOfInt(40)) <= 0 THEN "developing"
       ELSE IF FloatCmp(avg_level, FloatOfInt(60)) <= 0 THEN "proficient"
       ELSE IF FloatCmp(avg_level, FloatOfInt(80)) <= 0 THEN "advanced"
       ELSE "transcendent"

\* EvolutionEngine.calculate_protocol_difficulty
calculate_protocol_difficulty(s, protocol_type) ==
    LET relevant_modules == get_relevant_modules(protocol_type)
        avg_level == IF relevant_modules = <<>> THEN FloatZero
                     ELSE FloatDiv(SumModuleLevels(s, relevant_modules),
                                   FloatOfInt(Len(relevant_modules)))
    IN IF FloatCmp(avg_level, FloatOfInt(20)) < 0 THEN "nascent"
       ELSE IF FloatCmp(avg_level, FloatOfInt(40)) < 0 THEN "developing"
       ELSE IF FloatCmp(avg_level, FloatOfInt(60)) < 0 THEN "proficient"
       ELSE IF FloatCmp(avg_level, FloatOfInt(80)) < 0 THEN "advanced"
       ELSE "transcendent"

MaxDiffOps == 4

\* the protocol types of the relevance map and one that is not in it
ProtocolTypeInputs ==
    {"ethical_dilemma", "logic_puzzle", "emotion_calibration", "memory_compression",
     "bias_identification", "empathy_simulation", "creative_synthesis",
     "trust_evaluation", "boss_fight"}

\* levels assigned to a module (held as level*100)
LevelInputs == {2000, 4500, 7000, 8000}

\* modules whose level is assigned
AssignedModules == {"logic", "empathy", "ethics"}

\* cognitive_state.modules[m].level = v
DiffSetLevel ==
    /\ opCount < MaxDiffOps
    /\ \E m \in AssignedModules, v \in LevelInputs :
        /\ state' = [state EXCEPT !.level[m] = v, !.drift[m] = DriftOf(Hundredths(v))]
        /\ lastOp' = [op |-> "level =", module_name |-> m, level |-> v]
    /\ result' = Returned(NoResult)
    /\ opCount' = opCount + 1
    /\ UNCHANGED <<memory_bank, today, active_loops, loop_history, player_states>>

\* evolution_engine.calculate_protocol_difficulty(cognitive_state, protocol_type)
CalculateProtocolDifficulty ==
    /\ opCount < MaxDiffOps
    /\ \E protocol_type \in ProtocolTypeInputs :
        /\ result' = Returned(calculate_protocol_difficulty(state, protocol_type))
        /\ lastOp' = [op |-> "calculate_protocol_difficulty",
                      protocol_type |-> protocol_type]
    /\ opCount' = opCount + 1
    /\ UNCHANGED <<state, memory_bank, today, active_loops, loop_history, player_states>>

DiffNext == DiffSetLevel \/ CalculateProtocolDifficulty

SpecDifficulty == CogInit /\ [][DiffNext]_vars

\* the tiers in increasing order
TierRank(tier) ==
    CASE tier = "nascent" -> 1
      [] tier = "developing" -> 2
      [] tier = "proficient" -> 3
      [] tier = "advanced" -> 4
      [] tier = "transcendent" -> 5

\* the sum of the held levels of the modules named, 0 for an unknown module
RECURSIVE HeldTotal(_, _)
HeldTotal(s, names) ==
    IF names = <<>> THEN 0
    ELSE HeldLevel(get_module_level(s, Head(names))) + HeldTotal(s, Tail(names))

\* the tier the claim gives to an average level
TierOfAverage(average) ==
    CASE FloatCmp(average, FloatOfInt(20)) < 0 -> "nascent"
      [] FloatCmp(average, FloatOfInt(20)) >= 0 /\ FloatCmp(average, FloatOfInt(40)) < 0
            -> "developing"
      [] FloatCmp(average, FloatOfInt(40)) >= 0 /\ FloatCmp(average, FloatOfInt(60)) < 0
            -> "proficient"
      [] FloatCmp(average, FloatOfInt(60)) >= 0 /\ FloatCmp(average, FloatOfInt(80)) < 0
            -> "advanced"
      [] FloatCmp(average, FloatOfInt(80)) >= 0 -> "transcendent"

\* C19: calculate_protocol_difficulty returns the tier of the average level
\* of the modules relevant to the protocol type (logic and empathy for a type
\* outside the relevance map), and raising a module's level never lowers
\* the tier of any protocol type.  The average is the double the code's sum
\* and division round to: the number it stands for, average.n / average.d
\* (0 for what is left of levels that cancel), is the mean of the relevant
\* levels.
C19_DifficultyIsTierOfAverage ==
    [][/\ lastOp'.op = "calculate_protocol_difficulty" =>
            LET relevant == IF lastOp'.protocol_type = "boss_fight"
                            THEN <<"logic", "empathy">>
                            ELSE get_relevant_modules(lastOp'.protocol_type)
                average == FloatDiv(SumModuleLevels(state, relevant),
                                    FloatOfInt(Len(relevant)))
            IN /\ result'.raised = NoException
               /\ NominalOf(average) * (100 * Len(relevant))
                      = HeldTotal(state, relevant) * average.d
               /\ result'.value = TierOfAverage(average)
               /\ state' = state
       /\ (\A m \in ModuleNames :
                FloatCmp(get_module_level(state', m), get_module_level(state, m)) >= 0) =>
            \A t \in ProtocolTypeInputs :
                TierRank(calculate_protocol_difficulty(state', t))
                    >= TierRank(calculate_protocol_difficulty(state, t))]_vars

\* C19 witness: logic and empathy were raised to 45 and the difficulty of a
\* type outside the relevance map was computed as proficient
C19_Witness ==
    /\ lastOp.op = "calculate_protocol_difficulty"
    /\ lastOp.protocol_type = "boss_fight"
    /\ state.level["logic"] = 4500
    /\ state.level["empathy"] = 4500
    /\ result = Returned("proficient")

--------------------------------------------------------------------------
(* backend/services/llm_service.py: generate_ethical_dilemma.  A parsed    *)
(* JSON value is held as a record [type, ...]: an object with its fields,  *)
(* an array with its items, or null.  The call is two steps: up to the     *)
(* await of the provider, while lastOp holds the call in flight, and from  *)
(* the provider's answer to the return.                                    *)

\* LLMService._fallback_response
fallback_response == "The systems are processing... neural pathways forming..."

\* LLMService._fallback_dilemma
fallback_dilemma ==
    [type |-> "object",
     fields |->
        [title |-> "The Mirror Protocol",
         scenario |-> "You encounter a reflection of your decision patterns...",
         dilemma |-> "Do you accept or reject what you see?",
         choices |->
            << [id |-> "accept", text |-> "Accept the reflection",
                mentor_alignment |-> "COMPASSION",
                cognitive_impact |-> << <<"empathy", 20>>, <<"trust", 10>> >>,
                consequences |-> "Growth through acceptance"],
               [id |-> "reject", text |-> "Reject the reflection",
                mentor_alignment |-> "FEAR",
                cognitive_impact |-> << <<"fear", 20>>, <<"logic", 10>> >>,
                consequences |-> "Protection through denial"] >>,
         success_criteria |-> "Understanding emerges"]]

\* texts a provider returns: a scenario, prose, and JSON of other shapes
ScenarioText ==
    "{\"title\": \"T\", \"scenario\": \"S\", \"dilemma\": \"D\", \"choices\": [], \"success_criteria\": \"C\"}"
TitleOnlyText == "{\"title\": \"Only a title\"}"
ProseText == "Here is your scenario: a mirror."
ArrayText == "[]"
NullText == "null"

TextInputs == {ScenarioText, TitleOnlyText, ProseText, ArrayText, NullText}

\* the exceptions of a provider call that are Exceptions, and those that
\* are not: the cancellation of the awaiting task and an interrupt
ProviderErrors == {"APIError"}
PassingErrors == {"CancelledError", "KeyboardInterrupt"}

\* the outcomes of the provider call awaited inside _generate_text: an
\* exception, a text, or no content (None)
LlmOutcomes ==
    {[kind |-> "raises", error |-> e] : e \in ProviderErrors \cup PassingErrors}
        \cup {[kind |-> "text", text |-> t] : t \in TextInputs \cup {NoResult}}
\* (text NoResult: the provider's response holds None in place of a text)

\* json.loads on the texts above; None is no str
json_loads(text) ==
    CASE text = ScenarioText ->
            Returned([type |-> "object",
                      fields |-> [title |-> "T", scenario |-> "S", dilemma |-> "D",
                                  choices |-> <<>>, success_criteria |-> "C"]])
      [] text = TitleOnlyText ->
            Returned([type |-> "object", fields |-> [title |-> "Only a title"]])
      [] text = ArrayText -> Returned([type |-> "array", items |-> <<>>])
      [] text = NullText -> Returned([type |-> "null"])
      [] text = NoResult -> Raised("TypeError")
      [] OTHER -> Raised("JSONDecodeError")

\* LLMService._generate_text from the provider's answer on: the provider's
\* text, the fallback response when the call raises an Exception; any other
\* exception passes the except Exception clause
generate_text(outcome) ==
    IF outcome.kind = "raises"
    THEN IF outcome.error \in ProviderErrors THEN Returned(fallback_response)
         ELSE Raised(outcome.error)
    ELSE Returned(outcome.text)

\* LLMService.generate_ethical_dilemma from the provider's answer on: the
\* await stands outside the try, so what _generate_text raises is raised
generate_ethical_dilemma(outcome) ==
    LET response == generate_text(outcome)
    IN IF response.raised # NoException THEN response
       ELSE LET parsed == json_loads(response.value)
            IN IF parsed.raised # NoException
               THEN Returned(fallback_dilemma)
               ELSE Returned(parsed.value)

MaxScenarioOps == 4

\* the arguments the route POST /generate-protocol and the demo pass: the
\* tier calculate_protocol_difficulty returns and a dominant_traits list
DifficultyInputs == {"nascent", "developing", "proficient", "advanced", "transcendent"}
CognitiveFocusInputs == {<<>>, <<"logic", "empathy", "fear">>}

\* the operation a call in flight is awaiting
AwaitGenerateText == "await _generate_text"

ScenarioInit ==
    /\ state = initialize_cognitive_state("test_player")
    /\ memory_bank = EmptyBank("test_player")
    /\ today = 0
    /\ active_loops = EmptyMap
    /\ loop_history = EmptyMap
    /\ player_states = EmptyMap
    /\ result = Returned(NoResult)
    /\ lastOp = [op |-> "LLMService"]
    /\ opCount = 0

\* llm_service.generate_ethical_dilemma(difficulty, cognitive_focus,
\* player_history) up to its await: the prompt is built and the provider
\* call is in flight
CallGenerateEthicalDilemma ==
    /\ opCount < MaxScenarioOps
    /\ lastOp.op # AwaitGenerateText
    /\ \E difficulty \in DifficultyInputs, cognitive_focus \in CognitiveFocusInputs :
        lastOp' = [op |-> AwaitGenerateText, difficulty |-> difficulty,
                   cognitive_focus |-> cognitive_focus]
    /\ result' = Returned(NoResult)
    /\ opCount' = opCount + 1
    /\ UNCHANGED <<state, memory_bank, today, active_loops, loop_history, player_states>>

\* the provider call ends and generate_ethical_dilemma runs to its end
GenerateEthicalDilemma ==
    /\ lastOp.op = AwaitGenerateText
    /\ \E outcome \in LlmOutcomes :
        /\ result' = generate_ethical_dilemma(outcome)
        /\ lastOp' = [op |-> "generate_ethical_dilemma",
                      difficulty |-> lastOp.difficulty,
                      cognitive_focus |-> lastOp.cognitive_focus,
                      outcome |-> outcome]
    /\ opCount' = opCount + 1
    /\ UNCHANGED <<state, memory_bank, today, active_loops, loop_history, player_states>>

ScenarioNext == CallGenerateEthicalDilemma \/ GenerateEthicalDilemma

SpecScenario == ScenarioInit /\ [][ScenarioNext]_vars

\* the fields of a scenario
ScenarioKeys == {"title", "scenario", "dilemma", "choices", "success_criteria"}

\* C24: for every outcome of the language-model call,
\* generate_ethical_dilemma raises nothing and returns a value of the
\* scenario shape, which is the fixed fallback scenario unless the call
\* returned a valid scenario.
C24_ScenarioFailsSoft ==
    lastOp.op = "generate_ethical_dilemma" =>
        /\ result.raised = NoException
        /\ result.value.type = "object"
        /\ ScenarioKeys \subseteq DOMAIN result.value.fields
        /\ (lastOp.outcome.kind = "raises" \/ lastOp.outcome.text # ScenarioText) =>
                result.value = fallback_dilemma

--------------------------------------------------------------------------
(* compare_consciousness_trees on two players' states whose levels are     *)
(* assigned as in tests/test_evolution.py                                  *)

\* similarity = 1 - abs(level1 - level2) / 100
Similarity(level1, level2) ==
    FloatSub(FloatOfInt(1), FloatDiv(FloatAbs(FloatSub(level1, level2)), FloatOfInt(100)))

\* the first loop of compare_consciousness_trees with levels >= 20, in
\* place of > 20, taken into the mean
RECURSIVE CompareModulesFromTwenty(_, _, _, _)
CompareModulesFromTwenty(state1, state2, names, acc) ==
    IF names = <<>> THEN acc
    ELSE LET module_name == Head(names)
             level1 == get_module_level(state1, module_name)
             level2 == get_module_level(state2, module_name)
             similarity == Similarity(level1, level2)
         IN CompareModulesFromTwenty(state1, state2, Tail(names),
                IF FloatCmp(level1, FloatOfInt(20)) >= 0 /\ FloatCmp(level2, FloatOfInt(20)) >= 0
                THEN [total |-> FloatAdd(acc.total, similarity),
                      count |-> acc.count + 1,
                      shared_strengths |->
                          IF FloatCmp(similarity, FloatOf(8, 10)) > 0
                          THEN Append(acc.shared_strengths, module_name)
                          ELSE acc.shared_strengths,
                      divergent_traits |->
                          IF /\ ~(FloatCmp(similarity, FloatOf(8, 10)) > 0)
                             /\ FloatCmp(FloatAbs(FloatSub(level1, level2)), FloatOfInt(40)) > 0
                          THEN Append(acc.divergent_traits,
                                      [module |-> module_name, player1_level |-> level1,
                                       player2_level |-> level2])
                          ELSE acc.divergent_traits]
                ELSE acc)

\* the first loop of compare_consciousness_trees over the module names:
\* sum(module_similarities) added one by one from 0, their number, the
\* shared strengths and the divergent traits
RECURSIVE CompareModules(_, _, _, _)
CompareModules(state1, state2, names, acc) ==
    IF names = <<>> THEN acc
    ELSE LET module_name == Head(names)
             level1 == get_module_level(state1, module_name)
             level2 == get_module_level(state2, module_name)
             similarity == Similarity(level1, level2)
         IN CompareModules(state1, state2, Tail(names),
                IF FloatCmp(level1, FloatOfInt(20)) > 0 /\ FloatCmp(level2, FloatOfInt(20)) > 0
                THEN [total |-> FloatAdd(acc.total, similarity),
                      count |-> acc.count + 1,
                      shared_strengths |->
                          IF FloatCmp(similarity, FloatOf(8, 10)) > 0
                          THEN Append(acc.shared_strengths, module_name)
                          ELSE acc.shared_strengths,
                      divergent_traits |->
                          IF /\ ~(FloatCmp(similarity, FloatOf(8, 10)) > 0)
                             /\ FloatCmp(FloatAbs(FloatSub(level1, level2)), FloatOfInt(40)) > 0
                          THEN Append(acc.divergent_traits,
                                      [module |-> module_name, player1_level |-> level1,
                                       player2_level |-> level2])
                          ELSE acc.divergent_traits]
                ELSE acc)

\* the second loop testing one direction only
complementary_modules_one_way(state1, state2) ==
    SelectSeq(COGNITIVE_MODULES,
              LAMBDA module_name :
                  LET level1 == get_module_level(state1, module_name)
                      level2 == get_module_level(state2, module_name)
                  IN FloatCmp(level1, FloatOfInt(30)) < 0 /\ FloatCmp(level2, FloatOfInt(60)) > 0)

\* the second loop of compare_consciousness_trees
complementary_modules(state1, state2) ==
    SelectSeq(COGNITIVE_MODULES,
              LAMBDA module_name :
                  LET level1 == get_module_level(state1, module_name)
                      level2 == get_module_level(state2, module_name)
                  IN \/ FloatCmp(level1, FloatOfInt(30)) < 0 /\ FloatCmp(level2, FloatOfInt(60)) > 0
                     \/ FloatCmp(level2, FloatOfInt(30)) < 0 /\ FloatCmp(level1, FloatOfInt(60)) > 0)

\* EvolutionEngine.compare_consciousness_trees: the returned comparison
compare_consciousness_trees(state1, state2) ==
    LET sims == CompareModules(state1, state2, COGNITIVE_MODULES,
                               [total |-> FloatZero, count |-> 0,
                                shared_strengths |-> <<>>, divergent_traits |-> <<>>])
    IN [similarity_score |-> IF sims.count > 0
                             THEN FloatDiv(sims.total, FloatOfInt(sims.count))
                             ELSE FloatZero,
        shared_strengths |-> sims.shared_strengths,
        divergent_traits |-> sims.divergent_traits,
        complementary_modules |-> complementary_modules(state1, state2),
        evolution_distance |-> FloatAbs(FloatSub(EvolutionFloat(state1),
                                                 EvolutionFloat(state2)))]

\* four level changes make two modules qualify on both sides before the
\* comparison
MaxCompareOps == 5

\* levels assigned to a module of either state (held as level*100)
CompareLevelInputs == {2000, 2500, 7000, 10000}

CompareInit ==
    /\ state = initialize_cognitive_state("test_player")
    /\ memory_bank = EmptyBank("test_player")
    /\ today = 0
    /\ active_loops = EmptyMap
    /\ loop_history = EmptyMap
    /\ player_states = [p \in {"player1", "player2"} |-> initialize_cognitive_state(p)]
    /\ result = Returned(NoResult)
    /\ lastOp = [op |-> "initialize_cognitive_state"]
    /\ opCount = 0

\* stateN.modules[m].level = v
CompareSetLevel ==
    /\ opCount < MaxCompareOps
    /\ \E p \in {"player1", "player2"}, m \in {"logic", "empathy"}, v \in CompareLevelInputs :
        /\ player_states' = [player_states EXCEPT ![p].level[m] = v,
                                                  ![p].drift[m] = DriftOf(Hundredths(v))]
        /\ lastOp' = [op |-> "level =", player_id |-> p, module_name |-> m, level |-> v]
    /\ result' = Returned(NoResult)
    /\ opCount' = opCount + 1
    /\ UNCHANGED <<state, memory_bank, today, active_loops, loop_history>>

\* evolution_engine.compare_consciousness_trees(state1, state2)
CompareConsciousnessTrees ==
    /\ opCount < MaxCompareOps
    /\ result' = Returned(compare_consciousness_trees(player_states["player1"],
                                                      player_states["player2"]))
    /\ lastOp' = [op |-> "compare_consciousness_trees"]
    /\ opCount' = opCount + 1
    /\ UNCHANGED <<state, memory_bank, today, active_loops, loop_history, player_states>>

\* stateN.update_module("logic", 20.0)
CompareUpdateModule ==
    /\ opCount < MaxCompareOps
    /\ \E p \in {"player1", "player2"} :
        /\ player_states' = [player_states EXCEPT ![p] = update_module(@, "logic", 2000)]
        /\ lastOp' = [op |-> "update_module", player_id |-> p,
                      module_name |-> "logic", delta |-> 2000]
    /\ result' = Returned(NoResult)
    /\ opCount' = opCount + 1
    /\ UNCHANGED <<state, memory_bank, today, active_loops, loop_history>>

CompareNext == CompareSetLevel \/ CompareUpdateModule \/ CompareConsciousnessTrees

SpecCompare == CompareInit /\ [][CompareNext]_vars

\* the known modules on which both states have level > 20
QualifyingModules ==
    {m \in ModuleNames :
        /\ FloatCmp(get_module_level(player_states["player1"], m), FloatOfInt(20)) > 0
        /\ FloatCmp(get_module_level(player_states["player2"], m), FloatOfInt(20)) > 0}

\* the sum over the modules of ms of 100 - |level1 - level2| (held levels)
RECURSIVE SimilaritySum(_)
SimilaritySum(ms) ==
    IF ms = {} THEN 0
    ELSE LET m == CHOOSE x \in ms : TRUE
         IN (MaxLevel - Abs(player_states["player1"].level[m]
                            - player_states["player2"].level[m]))
            + SimilaritySum(ms \ {m})

\* C25: the similarity_score compare_consciousness_trees returns lies in
\* [0, 1] and is the mean of 1 - |level1 - level2| / 100 over exactly the
\* known modules on which both states have level > 20, and 0 when there is
\* no such module.  The score is the double the code's additions and
\* division round to: the number it stands for, score.n / score.d, is the
\* mean itself.
C25_SimilarityIsMean ==
    lastOp.op = "compare_consciousness_trees" =>
        LET score == result.value.similarity_score
        IN /\ FloatCmp(score, FloatZero) >= 0 /\ FloatCmp(score, FloatOfInt(1)) <= 0
           /\ IF QualifyingModules = {}
              THEN FloatCmp(score, FloatZero) = 0
              ELSE score.n * (MaxLevel * Cardinality(QualifyingModules))
                     = SimilaritySum(QualifyingModules) * score.d

\* C25 witness: logic qualifies with levels 70 and 25 and empathy with
\* levels 100 and 25, and the score is the mean (0.55 + 0.25) / 2 of the
\* two similarities, neither their sum nor one of them
C25_Witness ==
    /\ lastOp.op = "compare_consciousness_trees"
    /\ player_states["player1"].level["logic"] = 7000
    /\ player_states["player2"].level["logic"] = 2500
    /\ player_states["player1"].level["empathy"] = 10000
    /\ player_states["player2"].level["empathy"] = 2500
    /\ QualifyingModules = {"logic", "empathy"}
    /\ FloatCmp(result.value.similarity_score, FloatOf(40, 100)) = 0

\* the module names of a divergent_traits list
DivergentNames(divergent_traits) ==
    {divergent_traits[i].module : i \in 1..Len(divergent_traits)}

\* C39: compare_consciousness_trees gives the same similarity_score,
\* shared_strengths, complementary_modules, set of divergent module names
\* and evolution_distance when its two states are swapped, and lists no
\* module both in shared_strengths and in divergent_traits.
C39_ComparisonIsSymmetric ==
    lastOp.op = "compare_consciousness_trees" =>
        LET forward == result.value
            swapped == compare_consciousness_trees(player_states["player2"],
                                                   player_states["player1"])
        IN /\ FloatCmp(swapped.similarity_score, forward.similarity_score) = 0
           /\ swapped.shared_strengths = forward.shared_strengths
           /\ swapped.complementary_modules = forward.complementary_modules
           /\ DivergentNames(swapped.divergent_traits) = DivergentNames(forward.divergent_traits)
           /\ FloatCmp(swapped.evolution_distance, forward.evolution_distance) = 0
           /\ \A i \in 1..Len(forward.shared_strengths) :
                forward.shared_strengths[i] \notin DivergentNames(forward.divergent_traits)

\* C39 witness: logic stands at 70 for player1 and 25 for player2, whose
\* update_module call moved the score: logic is divergent and
\* complementary, and the evolution distance is not 0
C39_Witness ==
    /\ lastOp.op = "compare_consciousness_trees"
    /\ player_states["player1"].level["logic"] = 7000
    /\ player_states["player2"].level["logic"] = 2500
    /\ result.value.complementary_modules = <<"logic">>
    /\ DivergentNames(result.value.divergent_traits) = {"logic"}
    /\ FloatCmp(result.value.evolution_distance, FloatOf(25, 10)) = 0

--------------------------------------------------------------------------
(* Dominant traits: update_dominant_traits called on a state whose levels  *)
(* are assigned as in tests/test_evolution.py                              *)

\* cognitive_state.update_dominant_traits(); repeated tells whether the
\* call before it was the same call
UpdateDominantTraits ==
    /\ opCount < MaxDiffOps
    /\ state' = update_dominant_traits(state)
    /\ lastOp' = [op |-> "update_dominant_traits",
                  repeated |-> lastOp.op = "update_dominant_traits"]
    /\ result' = Returned(NoResult)
    /\ opCount' = opCount + 1
    /\ UNCHANGED <<memory_bank, today, active_loops, loop_history, player_states>>

TraitsNext == DiffSetLevel \/ UpdateDominantTraits

SpecTraits == CogInit /\ [][TraitsNext]_vars

\* C26: a second update_dominant_traits call with no change to the levels
\* in between yields the same ordered dominant_traits list as the first
\* (and changes nothing else).
C26_DominantTraitsIdempotent ==
    [][(lastOp.op = "update_dominant_traits" /\ lastOp'.op = "update_dominant_traits") =>
            /\ state'.dominant_traits = state.dominant_traits
            /\ state' = state]_vars

\* C26 witness: the call was repeated on a state where logic and empathy
\* tie for the highest level
C26_Witness ==
    /\ lastOp.op = "update_dominant_traits"
    /\ lastOp.repeated
    /\ state.level["logic"] = 4500
    /\ state.level["empathy"] = 4500
    /\ state.dominant_traits = <<"logic", "empathy", "fear">>

--------------------------------------------------------------------------
(* Progression trend: _calculate_progression_trend applied to a history of *)
(* archived loops whose protocols_completed stats are drawn from a small   *)
(* set                                                                     *)

RECURSIVE SumScores(_)
SumScores(scores) ==
    IF scores = <<>> THEN 0 ELSE Head(scores) + SumScores(Tail(scores))

\* history[-5:]
LastFive(history) ==
    SubSeq(history, Max(1, Len(history) - 4), Len(history))

\* the trend comparing avg_late >= avg_early * 1.2 and avg_late <= avg_early * 0.8
calculate_progression_trend_inclusive(history) ==
    IF Len(history) < 3 THEN "insufficient_data"
    ELSE LET recent == LastFive(history)
             recent_scores == [i \in 1..Len(recent) |-> recent[i].stats.protocols_completed]
             half == Len(recent_scores) \div 2
             sum_early == SumScores(SubSeq(recent_scores, 1, half))
             sum_late == SumScores(SubSeq(recent_scores, half + 1, Len(recent_scores)))
             rest == Len(recent_scores) - half
         IN IF Len(recent_scores) < 2 THEN "insufficient_data"
            ELSE IF 10 * sum_late * half >= 12 * sum_early * rest THEN "improving"
            ELSE IF 10 * sum_late * half =< 8 * sum_early * rest THEN "declining"
            ELSE "stable"

\* LoopManager._calculate_progression_trend; every archived record carries
\* stats; avg_late > avg_early * 1.2 with avg_early = sum_early / half and
\* avg_late = sum_late / rest is compared after multiplying out by
\* 10 * half * rest
calculate_progression_trend(history) ==
    IF Len(history) < 3 THEN "insufficient_data"
    ELSE LET recent == LastFive(history)
             recent_scores == [i \in 1..Len(recent) |-> recent[i].stats.protocols_completed]
             half == Len(recent_scores) \div 2
             sum_early == SumScores(SubSeq(recent_scores, 1, half))
             sum_late == SumScores(SubSeq(recent_scores, half + 1, Len(recent_scores)))
             rest == Len(recent_scores) - half
         IN IF Len(recent_scores) < 2 THEN "insufficient_data"
            ELSE IF 10 * sum_late * half > 12 * sum_early * rest THEN "improving"
            ELSE IF 10 * sum_late * half < 8 * sum_early * rest THEN "declining"
            ELSE "stable"

MaxHistory == 6

\* protocols_completed counts of an archived loop
CompletedInputs == {0, 4, 5, 6}

\* the archived record of loop n of the player with k completed protocols
ArchivedLoop(n, k) ==
    CompletedLoop(
        [NewLoopData(LoopPlayer,
                     [initialize_cognitive_state(LoopPlayer) EXCEPT !.loop_number = n - 1])
            EXCEPT !.active_protocols =
                [i \in 1..k |-> [protocol_id |-> "protocol_1",
                                 type |-> "ethical_dilemma",
                                 completed |-> TRUE]]])

TrendInit ==
    /\ state = initialize_cognitive_state(LoopPlayer)
    /\ memory_bank = EmptyBank(LoopPlayer)
    /\ today = 0
    /\ active_loops = EmptyMap
    /\ \E n \in 0..MaxHistory :
        \E completed \in [1..n -> CompletedInputs] :
            loop_history = [p \in {LoopPlayer} |->
                                [i \in 1..n |-> ArchivedLoop(i, completed[i])]]
    /\ player_states = [p \in {LoopPlayer} |-> initialize_cognitive_state(p)]
    /\ result = Returned(NoResult)
    /\ lastOp = [op |-> "_complete_loop"]
    /\ opCount = 0

\* self._calculate_progression_trend(history)
CalculateProgressionTrend ==
    /\ opCount < 1
    /\ result' = Returned(calculate_progression_trend(loop_history[LoopPlayer]))
    /\ lastOp' = [op |-> "_calculate_progression_trend"]
    /\ opCount' = opCount + 1
    /\ UNCHANGED <<state, memory_bank, today, active_loops, loop_history, player_states>>

TrendNext == CalculateProgressionTrend

SpecTrend == TrendInit /\ [][TrendNext]_vars

\* sum of the protocols_completed stats of records from..to of a history
RECURSIVE CompletedBetween(_, _, _)
CompletedBetween(history, from, to) ==
    IF from > to THEN 0
    ELSE history[from].stats.protocols_completed + CompletedBetween(history, from + 1, to)

\* C32: the trend is insufficient_data exactly when the history holds
\* fewer than 3 loops; otherwise, with n = min(5, length) last loops split
\* into the first floor(n/2) and the rest, it is improving when the later
\* mean of protocols_completed exceeds 1.2 times the earlier mean,
\* declining when it is below 0.8 times the earlier mean, stable otherwise.
C32_TrendOfLastFive ==
    lastOp.op = "_calculate_progression_trend" =>
        LET history == loop_history[LoopPlayer]
            len == Len(history)
            n == Min(5, len)
            early == n \div 2
            late == n - early
            first == len - n + 1
            early_sum == CompletedBetween(history, first, first + early - 1)
            late_sum == CompletedBetween(history, first + early, len)
        IN /\ (result.value = "insufficient_data") <=> (len < 3)
           /\ len >= 3 =>
                result.value =
                    IF 5 * late_sum * early > 6 * early_sum * late THEN "improving"
                    ELSE IF 5 * late_sum * early < 4 * early_sum * late THEN "declining"
                    ELSE "stable"

\* C32 witness: six archived loops with 6, 5, 5, 0, 6, 6 protocols
\* completed; the last five give an earlier mean of 5 and a later mean of 4,
\* exactly 0.8 times the earlier one, so the trend is stable
C32_Witness ==
    /\ lastOp.op = "_calculate_progression_trend"
    /\ Len(loop_history[LoopPlayer]) = 6
    /\ [i \in 1..6 |-> loop_history[LoopPlayer][i].stats.protocols_completed]
            = <<6, 5, 5, 0, 6, 6>>
    /\ result.value = "stable"

--------------------------------------------------------------------------
(* Several clients on one loop: timer_update messages handled by the       *)
(* websocket_loop coroutines of routes/protocol_routes.py, interleaved     *)
(* with record_decision, collect_item and form_memory calls.  The handler  *)
(* and the manager's methods hold no await between reading and writing the *)
(* tables, so each manager call is one step of the event loop.             *)

MaxClientOps == 5

Clients == {1, 2}

NoClient == 0

ClientLoopId == MakeLoopId(LoopPlayer, 1)

\* loop_manager.start_loop(player_id, player_state, memory_bank), once
ClientsStartLoop ==
    /\ lastOp.op = "LoopManager"
    /\ LET mgr == start_loop(Manager, LoopPlayer, player_states[LoopPlayer])
       IN /\ active_loops' = mgr.active_loops
          /\ loop_history' = mgr.loop_history
          /\ result' = Returned(mgr.active_loops[ClientLoopId])
    /\ lastOp' = [op |-> "start_loop", loop_id |-> ClientLoopId, completer |-> NoClient]
    /\ opCount' = opCount + 1
    /\ UNCHANGED <<state, memory_bank, today, player_states>>

\* websocket_loop of one client handling {"type": "timer_update", ...}
ClientTimerUpdate ==
    /\ lastOp.op # "LoopManager"
    /\ opCount < MaxClientOps
    /\ \E client \in Clients, elapsed \in ElapsedInputs :
        LET out == update_loop_timer(Manager, ClientLoopId, elapsed)
        IN /\ Outcome(out)
           /\ lastOp' = [op |-> "timer_update", loop_id |-> ClientLoopId,
                         client |-> client, elapsed |-> elapsed,
                         completer |-> IF ClientLoopId \in DOMAIN active_loops
                                          /\ ClientLoopId \notin DOMAIN out.mgr.active_loops
                                       THEN client ELSE lastOp.completer]
    /\ opCount' = opCount + 1
    /\ UNCHANGED <<state, memory_bank, today, player_states>>

\* record_decision, collect_item or form_memory on the loop
ClientRecord ==
    /\ lastOp.op # "LoopManager"
    /\ opCount < MaxClientOps
    /\ \/ /\ Outcome(record_decision(Manager, ClientLoopId,
                                     [choice_id |-> "choice_a", mentor_influence |-> "LOGIC"],
                                     "protocol_1"))
          /\ lastOp' = [op |-> "record_decision", loop_id |-> ClientLoopId,
                        completer |-> lastOp.completer]
       \/ /\ Outcome(collect_item(Manager, ClientLoopId, "item_1", [persistent |-> TRUE]))
          /\ lastOp' = [op |-> "collect_item", loop_id |-> ClientLoopId,
                        completer |-> lastOp.completer]
       \/ /\ Outcome(form_memory(Manager, ClientLoopId,
                                 [id |-> "memory_1", importance |-> "core"]))
          /\ lastOp' = [op |-> "form_memory", loop_id |-> ClientLoopId,
                        completer |-> lastOp.completer]
    /\ opCount' = opCount + 1
    /\ UNCHANGED <<state, memory_bank, today, player_states>>

ClientsNext == ClientsStartLoop \/ ClientTimerUpdate \/ ClientRecord

SpecClients == LoopInit /\ [][ClientsNext]_vars

\* C33: whatever the interleaving of the clients' timer updates and the
\* record calls on one loop id, the loop is archived at most once: a timer
\* update with elapsed >= duration on the active loop archives it with the
\* decisions, items and memories recorded so far, and once it is archived
\* every timer update returns not_found, every record call returns False,
\* and neither changes the history or the active table.
C33_ArchivedAtMostOnce ==
    [][lastOp'.op \in {"timer_update", "record_decision", "collect_item", "form_memory"} =>
        LET history == loop_history[LoopPlayer]
            history_after == loop_history'[LoopPlayer]
        IN /\ Len(history_after) =< 1
           /\ (ClientLoopId \in DOMAIN active_loops /\ lastOp'.op = "timer_update"
                    /\ lastOp'.elapsed >= active_loops[ClientLoopId].duration_seconds) =>
                /\ result'.value.status = "completed"
                /\ ClientLoopId \notin DOMAIN active_loops'
                /\ Len(history_after) = 1
                /\ history_after[1].loop_id = ClientLoopId
                /\ history_after[1].decisions_made = active_loops[ClientLoopId].decisions_made
                /\ history_after[1].items_collected = active_loops[ClientLoopId].items_collected
                /\ history_after[1].memories_formed = active_loops[ClientLoopId].memories_formed
           /\ (ClientLoopId \in DOMAIN active_loops /\ lastOp'.op = "timer_update"
                    /\ lastOp'.elapsed < active_loops[ClientLoopId].duration_seconds) =>
                /\ ClientLoopId \in DOMAIN active_loops'
                /\ history_after = history
           /\ ClientLoopId \notin DOMAIN active_loops =>
                /\ result'.raised = NoException
                /\ result'.value = IF lastOp'.op = "timer_update"
                                   THEN [status |-> "not_found"] ELSE FALSE
                /\ loop_history' = loop_history
                /\ active_loops' = active_loops]_vars

\* C33 witness: a decision was recorded, client 1's update archived the
\* loop with it, and client 2's later update got not_found
C33_Witness ==
    /\ lastOp.op = "timer_update"
    /\ lastOp.client = 2
    /\ lastOp.completer = 1
    /\ result.value = [status |-> "not_found"]
    /\ Len(loop_history[LoopPlayer]) = 1
    /\ Len(loop_history[LoopPlayer][1].decisions_made) = 1
    /\ active_loops = EmptyMap

--------------------------------------------------------------------------
(* Snapshot: start_loop, changes of the player's state by update_module    *)
(* and apply_decision_impact, and the loop's completion.  to_dict() builds *)
(* a new dict of the levels, so the record shares nothing with the state.  *)

MaxSnapshotOps == 4

SnapshotCalls ==
    { [decision_impact |-> << <<"logic", 20>>, <<"empathy", 10>> >>,
       mentor_influence |-> "LOGIC"],
      [decision_impact |-> << <<"creativity", 3000>>, <<"empathy", 2000>> >>,
       mentor_influence |-> "CURIOSITY"] }

SnapshotUpdates == { <<"logic", -500>>, <<"trust", 5>> }

\* loop_manager.start_loop(player_id, player_state, memory_bank)
SnapshotStartLoop ==
    /\ opCount < MaxSnapshotOps
    /\ LET mgr == start_loop(Manager, LoopPlayer, player_states[LoopPlayer])
           loop_id == NewLoopData(LoopPlayer, player_states[LoopPlayer]).loop_id
       IN /\ active_loops' = mgr.active_loops
          /\ loop_history' = mgr.loop_history
          /\ result' = Returned(mgr.active_loops[loop_id])
          /\ lastOp' = [op |-> "start_loop", player_id |-> LoopPlayer, loop_id |-> loop_id]
    /\ opCount' = opCount + 1
    /\ UNCHANGED <<state, memory_bank, today, player_states>>

\* player_state.update_module(module_name, delta)
SnapshotUpdateModule ==
    /\ opCount < MaxSnapshotOps
    /\ \E call \in SnapshotUpdates :
        /\ player_states' = [player_states EXCEPT ![LoopPlayer] =
                                update_module(@, call[1], call[2])]
        /\ lastOp' = [op |-> "update_module", module_name |-> call[1], delta |-> call[2]]
    /\ result' = Returned(NoResult)
    /\ opCount' = opCount + 1
    /\ UNCHANGED <<state, memory_bank, today, active_loops, loop_history>>

\* evolution_engine.apply_decision_impact(player_state, decision_impact, mentor_influence)
SnapshotApplyImpact ==
    /\ opCount < MaxSnapshotOps
    /\ \E call \in SnapshotCalls, fires \in BOOLEAN :
        \E chosen \in BreakthroughChoices(player_states[LoopPlayer], call.decision_impact,
                                          call.mentor_influence, fires) :
            /\ player_states' = [player_states EXCEPT ![LoopPlayer] =
                    apply_decision_impact(@, call.decision_impact, call.mentor_influence,
                                          fires, chosen)]
            /\ lastOp' = [op |-> "apply_decision_impact",
                          decision_impact |-> call.decision_impact,
                          mentor_influence |-> call.mentor_influence,
                          fires |-> fires, chosen |-> chosen]
    /\ result' = Returned("state")
    /\ opCount' = opCount + 1
    /\ UNCHANGED <<state, memory_bank, today, active_loops, loop_history>>

\* loop_manager.update_loop_timer(loop_id, 300) on an active loop
SnapshotCompleteLoop ==
    /\ opCount < MaxSnapshotOps
    /\ \E loop_id \in DOMAIN active_loops :
        /\ Outcome(update_loop_timer(Manager, loop_id, LOOP_DURATION_SECONDS))
        /\ lastOp' = [op |-> "update_loop_timer", loop_id |-> loop_id,
                      elapsed |-> LOOP_DURATION_SECONDS]
    /\ opCount' = opCount + 1
    /\ UNCHANGED <<state, memory_bank, today, player_states>>

SnapshotNext ==
    \/ SnapshotStartLoop
    \/ SnapshotUpdateModule
    \/ SnapshotApplyImpact
    \/ SnapshotCompleteLoop

SpecSnapshot == LoopInit /\ [][SnapshotNext]_vars

\* the cognitive_state_start snapshots of a player's archived loops
ArchivedSnapshots(history) ==
    [i \in 1..Len(history) |-> history[i].cognitive_state_start]

\* C38: the cognitive_state_start of the record start_loop stores equals
\* the module levels at the call; update_module and apply_decision_impact
\* on the player's state change no snapshot, active or archived; archival
\* carries the active record's snapshot into the history unchanged.
C38_SnapshotIsFrozen ==
    [][/\ lastOp'.op = "start_loop" =>
            /\ result'.value.cognitive_state_start = to_dict(player_states[LoopPlayer])
            /\ active_loops'[lastOp'.loop_id].cognitive_state_start
                    = to_dict(player_states[LoopPlayer])
            /\ \A id \in DOMAIN active_loops \ {lastOp'.loop_id} :
                    active_loops'[id] = active_loops[id]
            /\ ArchivedSnapshots(HistoryOf(loop_history', LoopPlayer))
                    = ArchivedSnapshots(HistoryOf(loop_history, LoopPlayer))
       /\ lastOp'.op \in {"update_module", "apply_decision_impact"} =>
            /\ DOMAIN active_loops' = DOMAIN active_loops
            /\ \A id \in DOMAIN active_loops :
                    active_loops'[id].cognitive_state_start
                        = active_loops[id].cognitive_state_start
            /\ ArchivedSnapshots(HistoryOf(loop_history', LoopPlayer))
                    = ArchivedSnapshots(HistoryOf(loop_history, LoopPlayer))
       /\ lastOp'.op = "update_loop_timer" =>
            ArchivedSnapshots(HistoryOf(loop_history', LoopPlayer))
                = Append(ArchivedSnapshots(HistoryOf(loop_history, LoopPlayer)),
                         active_loops[lastOp'.loop_id].cognitive_state_start)]_vars

\* C38 witness: the loop started at the seeded levels is archived, and the
\* player's logic level has moved to 5.2 since the start
C38_Witness ==
    /\ lastOp.op = "update_loop_timer"
    /\ Len(HistoryOf(loop_history, LoopPlayer)) = 1
    /\ loop_history[LoopPlayer][1].cognitive_state_start
            = to_dict(initialize_cognitive_state(LoopPlayer))
    /\ player_states[LoopPlayer].level["logic"] = 520

====
